---- MODULE Spec2Model ----
(***************************************************************************)
(* A model of the NESEmu core: the CPU bus (src/nes/bus.rs), the CPU's    *)
(* reset and interrupt sequence (src/nes/cpu/mod.rs), the PPU's dot and   *)
(* scanline counters (src/nes/ppu/mod.rs) and the frame loop              *)
(* (src/nes/mod.rs).                                                       *)
(*                                                                         *)
(* The bus, the CPU and the PPU are records; every method of the source   *)
(* is an operator from a record to the record after the call, together    *)
(* with the call's result: <<"Ok", v>>, <<"Err", 0>> or <<"panic", 0>>    *)
(* (an index out of bounds, a todo!(), an unwrap of Err).  The byte        *)
(* arrays of the source are zero initialised; the model keeps only the    *)
(* cells that hold a non-zero byte (Load, Store) and checks every index   *)
(* against the array's length as the source's indexing does.              *)
(*                                                                         *)
(* The result of a call that the caller reads more than once is bound to  *)
(* the parameter of a local operator (or to a variable of \E x \in {call}  *)
(* in an action), so that the call is written, and evaluated, once.       *)
(***************************************************************************)
EXTENDS Integers, Sequences, FiniteSets, TLC

VARIABLES
    build,              \* the build profile: are integer overflow checks on
    bus,                \* struct Bus (with the cartridge it owns)
    cpu,                \* struct CPU
    ppu,                \* struct PPU
    nes,                \* struct NES: halt, pending_interrupt, dma_read_cycle
    pc,                 \* position in NES::new / NES::update / a bus client
    did_finish_frame,   \* the local of NES::update
    ppu_left,           \* PPU steps the for loop of NES::update still owes
    iter,               \* loop iterations or calls made so far (bounded)
    last,               \* the last call made on the bus, its input and result
    hist                \* history of the run, read by the properties only

vars == <<build, bus, cpu, ppu, nes, pc, did_finish_frame, ppu_left, iter, last, hist>>

-----------------------------------------------------------------------------
(* Bytes and bits *)

Byte == 0..255

Pow2(n) == 2^n

\* bitfield::Bit::bit
Bit(v, n) == (v \div Pow2(n)) % 2 = 1

\* bitfield::BitMut::set_bit
SetBit(v, n, b) ==
    IF b THEN (IF Bit(v, n) THEN v ELSE v + Pow2(n))
         ELSE (IF Bit(v, n) THEN v - Pow2(n) ELSE v)

\* u16::from_le_bytes
FromLeBytes(lo, hi) == lo + 256 * hi

\* The operators &, | and ^ on u8: bit n of the result is op of bit n of v
\* and bit n of w
BitwiseOp(v, w, op(_, _)) ==
    LET bits[n \in 0..8] ==
            IF n = 8 THEN 0
            ELSE (IF op(Bit(v, n), Bit(w, n)) THEN Pow2(n) ELSE 0) + bits[n + 1]
    IN  bits[0]

\* A zero-initialised byte array, kept as the set of its non-zero cells.
Load(mem, i) == IF i \in DOMAIN mem THEN mem[i] ELSE 0

Store(mem, i, v) ==
    IF v = 0
    THEN [x \in DOMAIN mem \ {i} |-> mem[x]]
    ELSE [x \in DOMAIN mem \cup {i} |-> IF x = i THEN v ELSE mem[x]]

EmptyMem == [x \in {} |-> 0]

Ok(b, v)  == [bus |-> b, res |-> <<"Ok", v>>]
Err(b)    == [bus |-> b, res |-> <<"Err", 0>>]
Panic(b)  == [bus |-> b, res |-> <<"panic", 0>>]

-----------------------------------------------------------------------------
(* Sizes and register bits of the source *)

CPU_RAM_SIZE == 2048
PPU_RAM_SIZE == 2048
OAM_SIZE == 256
PRG_ROM_BLOCK_SZ == 16384
CHR_ROM_BLOCK_SZ == 8192

VBLANK == 7
SPRITE0_HIT == 6
NMI_ENABLE == 7
VRAM_INC == 2
INT_DISABLE == 2
BFLAG == 4

\* InputEvent::A and InputEvent::END
InputA == 0
InputEND == 8

-----------------------------------------------------------------------------
(* The cartridge: Mapper000 and the PRG / CHR data *)

\* The PRG ROM image: NOP bytes, with the NMI and reset vectors in the last
\* six bytes of the last block.
PrgRom(c, off) ==
    LET top == c.prg_rom_size * PRG_ROM_BLOCK_SZ
    IN  CASE off = top - 6 -> c.nmi_vector % 256
          [] off = top - 5 -> c.nmi_vector \div 256
          [] off = top - 4 -> c.reset_vector % 256
          [] off = top - 3 -> c.reset_vector \div 256
          [] OTHER -> \hEA

\* A faulty internal_addr, for comparison: every cartridge is taken to be an
\* NROM-256
internal_addr_256(c, cpu_bus_address) ==
    IF cpu_bus_address \in \h8000..\hFFFF THEN \h8000 ELSE 0

\* internal_addr of Mapper000::prg_read: the base the bus address is reduced
\* by, 0 for its Err arm
internal_addr(c, cpu_bus_address) ==
    CASE cpu_bus_address \in \h8000..\hBFFF -> \h8000
      [] cpu_bus_address \in \hC000..\hFFFF ->
            IF c.prg_rom_size > 1 THEN \h8000 ELSE \hC000
      [] OTHER -> 0

\* The index into get_prg_rom() of Mapper000::prg_read, -1 in its Err arm
PrgIndex(c, cpu_bus_address) ==
    IF internal_addr(c, cpu_bus_address) = 0 THEN -1
    ELSE cpu_bus_address % internal_addr(c, cpu_bus_address)

\* Mapper000::prg_read
prg_read(c, cpu_bus_address) ==
    LET read(off) ==
            IF off = -1 THEN <<"Err", 0>>
            ELSE IF off >= c.prg_rom_size * PRG_ROM_BLOCK_SZ THEN <<"panic", 0>>
            ELSE <<"Ok", PrgRom(c, off)>>
    IN  read(PrgIndex(c, cpu_bus_address))

\* CartridgeData::get_chr_rom()[i]: CHR ROM bytes of the image, or the CHR RAM
ChrByte(c, i) ==
    IF c.chr_rom_size = 0 THEN Load(c.chr_ram, i) ELSE (i * 7 + 3) % 256

-----------------------------------------------------------------------------
(* Controller *)

\* Controller::new
ControllerNew == [serial |-> TRUE, input_state |-> 0, return_bit |-> InputA]

\* Controller::write_to_controller
write_to_controller(b, serial) ==
    [b EXCEPT !.controller.serial = serial, !.controller.return_bit = InputA]

\* Controller::read_from_controller.  input_state.bit(8) shifts a u8 by more
\* than its width: a panic with overflow checks, a discarded value without.
read_from_controller(b) ==
    LET c == b.controller
        res == IF Bit(c.input_state, c.return_bit) THEN 1 ELSE 0
    IN  IF c.return_bit = InputEND /\ build.overflow_checks THEN Panic(b)
        ELSE IF ~c.serial
             THEN IF c.return_bit = InputEND THEN Ok(b, 1)
                  ELSE Ok([b EXCEPT !.controller.return_bit = c.return_bit + 1], res)
             ELSE Ok(b, res)

-----------------------------------------------------------------------------
(* Palette memory *)

\* A faulty set_entry, for comparison: 0x3F10, 0x3F14, 0x3F18 and 0x3F1C are
\* cells of their own
set_entry_flat(b, addr, val) ==
    IF addr \in \h3F00..\h3F1F
    THEN Ok([b EXCEPT !.palette_memory = Store(@, addr % \h3F00, val)], 0)
    ELSE Panic(b)

\* PaletteMemory::set_entry
set_entry(b, addr, val) ==
    LET idx == CASE addr = \h3F10 -> 0
                 [] addr = \h3F14 -> 4
                 [] addr = \h3F18 -> 8
                 [] addr = \h3F1C -> 12
                 [] OTHER -> addr % \h3F00
    IN  IF addr \in \h3F00..\h3F1F
        THEN Ok([b EXCEPT !.palette_memory = Store(@, idx, val)], 0)
        ELSE Panic(b)

\* PaletteMemory::get_entry
get_entry(b, addr0) ==
    LET addr == IF addr0 % 4 = 0 THEN \h3F00 ELSE addr0
    IN  IF addr \in \h3F00..\h3F1F
        THEN Ok(b, Load(b.palette_memory, addr % \h3F00))
        ELSE Panic(b)

-----------------------------------------------------------------------------
(* Bus *)

\* PPURegisters::default
PPURegistersDefault ==
    [ppuctrl |-> 0, ppumask |-> 0, ppustatus |-> 0, ppuaddr |-> 0, ppudata |-> 0,
     write_latch |-> FALSE, fine_x |-> 0, fine_y |-> 0]

\* Bus::new
BusNew(c) ==
    [cartridge |-> c, cpu_ram |-> EmptyMem, ppu_ram |-> EmptyMem,
     oam_ram |-> EmptyMem, oam_addr |-> 0, pending_dma |-> FALSE,
     dma_page_addr |-> 0, ppu_registers |-> PPURegistersDefault,
     palette_memory |-> EmptyMem, controller |-> ControllerNew]

\* A faulty translate_nametable_addr, for comparison: every cartridge is
\* taken to be mirrored vertically
translate_nametable_addr_vert(b, addr) ==
    LET hi == addr \div 256
    IN  CASE hi \in \h20..\h23 -> addr - \h2000
          [] hi \in \h24..\h27 -> addr - \h2400 + \h400
          [] hi \in \h28..\h2B -> addr - \h2800
          [] hi \in \h2C..\h2F -> addr - \h2C00 + \h400
          [] OTHER -> -1

\* Bus::ppu_read_nametable: <<"Ok", byte>> or <<"Err", 0>>
ppu_read_nametable(b, addr) ==
    IF addr < \h2000 \/ addr >= \h3000 THEN <<"Err", 0>>
    ELSE IF b.cartridge.mirroring = "VERT"
    THEN CASE addr \in \h2000..\h23FF -> <<"Ok", Load(b.ppu_ram, addr - \h2000)>>
           [] addr \in \h2400..\h27FF -> <<"Ok", Load(b.ppu_ram, \h400 + addr - \h2400)>>
           [] addr \in \h2800..\h2BFF -> <<"Ok", Load(b.ppu_ram, addr - \h2800)>>
           [] addr \in \h2C00..\h2FFF -> <<"Ok", Load(b.ppu_ram, \h400 + addr - \h2C00)>>
    ELSE CASE addr \in \h2000..\h23FF -> <<"Ok", Load(b.ppu_ram, addr - \h2000)>>
           [] addr \in \h2400..\h27FF -> <<"Ok", Load(b.ppu_ram, addr - \h2400)>>
           [] addr \in \h2800..\h2BFF -> <<"Ok", Load(b.ppu_ram, \h400 + addr - \h2800)>>
           [] addr \in \h2C00..\h2FFF -> <<"Ok", Load(b.ppu_ram, \h400 + addr - \h2C00)>>

\* Bus::translate_nametable_addr
translate_nametable_addr(b, addr) ==
    LET hi == addr \div 256
        vert == b.cartridge.mirroring = "VERT"
    IN  CASE hi \in \h20..\h23 -> addr - \h2000
          [] hi \in \h24..\h27 -> IF vert THEN addr - \h2400 + \h400 ELSE addr - \h2400
          [] hi \in \h28..\h2B -> IF vert THEN addr - \h2800 ELSE addr - \h2800 + \h400
          [] hi \in \h2C..\h2F -> addr - \h2C00 + \h400
          [] OTHER -> -1

\* Bus::ppu_increment_vram_ptr (ppuaddr is at most 0x3FFF here: no u16 overflow)
ppu_increment_vram_ptr(b) ==
    [b EXCEPT !.ppu_registers.ppuaddr =
        IF Bit(b.ppu_registers.ppuctrl, VRAM_INC) THEN @ + 32 ELSE @ + 1]

\* Bus::cpu_read_ppu_register
cpu_read_ppu_register(b, address, modify) ==
    LET r == b.ppu_registers
    IN  CASE address = \h2000 -> Ok(b, r.ppuctrl)
          [] address = \h2001 -> Ok(b, r.ppumask)
          [] address = \h2002 ->
                IF modify
                THEN Ok([b EXCEPT !.ppu_registers.ppustatus = SetBit(@, VBLANK, FALSE),
                                  !.ppu_registers.write_latch = FALSE], r.ppustatus)
                ELSE Ok(b, r.ppustatus)
          [] address = \h2003 -> Ok(b, b.oam_addr)
          [] address = \h2004 -> Ok(b, Load(b.oam_ram, b.oam_addr))
          [] address = \h2005 -> Ok(b, 0)
          [] address = \h2006 -> Panic(b)
          [] address = \h2007 ->
                CASE r.ppuaddr \in 0..\h1FFF ->
                        Ok(ppu_increment_vram_ptr(
                             [b EXCEPT !.ppu_registers.ppudata =
                                           ChrByte(b.cartridge, r.ppuaddr)]),
                           r.ppudata)
                  [] r.ppuaddr \in \h2000..\h2FFF ->
                        Ok(ppu_increment_vram_ptr(
                             [b EXCEPT !.ppu_registers.ppudata =
                                 Load(b.ppu_ram, translate_nametable_addr(b, r.ppuaddr))]),
                           r.ppudata)
                  [] r.ppuaddr \in \h3F00..\h3FFF ->
                        Ok(ppu_increment_vram_ptr(b),
                           get_entry(b, \h3F00 + (r.ppuaddr % \h20)).res[2])
                  [] OTHER -> Err(b)
          [] OTHER -> Err(b)

\* A faulty PPUSCROLL write, for comparison: the latch is never toggled, so
\* every write lands in fine_x
ScrollWriteStuck(b, value) ==
    Ok([b EXCEPT !.ppu_registers.fine_x = value], 0)

\* The PPUSCROLL arm of Bus::cpu_write_ppu_register
ScrollWrite(b, value) ==
    IF ~b.ppu_registers.write_latch
    THEN Ok([b EXCEPT !.ppu_registers.fine_x = value,
                      !.ppu_registers.write_latch = TRUE], 0)
    ELSE Ok([b EXCEPT !.ppu_registers.fine_y = value,
                      !.ppu_registers.write_latch = FALSE], 0)

\* A faulty PPUADDR write, for comparison: the address is not reduced after
\* the second write
AddrWriteUnmasked(b, value) ==
    IF ~b.ppu_registers.write_latch
    THEN Ok([b EXCEPT !.ppu_registers.ppuaddr = value * 256 + (@ % 256),
                      !.ppu_registers.write_latch = TRUE], 0)
    ELSE Ok([b EXCEPT !.ppu_registers.ppuaddr = (@ \div 256) * 256 + value,
                      !.ppu_registers.write_latch = FALSE], 0)

\* The PPUADDR arm of Bus::cpu_write_ppu_register
AddrWrite(b, value) ==
    IF ~b.ppu_registers.write_latch
    THEN Ok([b EXCEPT !.ppu_registers.ppuaddr = value * 256 + (@ % 256),
                      !.ppu_registers.write_latch = TRUE], 0)
    ELSE Ok([b EXCEPT !.ppu_registers.ppuaddr =
                            ((@ \div 256) * 256 + value) % \h4000,
                      !.ppu_registers.write_latch = FALSE], 0)

\* Bus::cpu_write_ppu_register
cpu_write_ppu_register(b, address, value) ==
    LET r == b.ppu_registers
    IN  CASE address = \h2000 -> Ok([b EXCEPT !.ppu_registers.ppuctrl = value], 0)
          [] address = \h2001 -> Ok([b EXCEPT !.ppu_registers.ppumask = value], 0)
          [] address = \h2002 -> Ok([b EXCEPT !.ppu_registers.ppustatus = value], 0)
          [] address = \h2003 -> Ok([b EXCEPT !.oam_addr = value], 0)
          [] address = \h2004 ->
                Ok([b EXCEPT !.oam_ram = Store(@, b.oam_addr, value),
                             !.oam_addr = (@ + 1) % 256], 0)
          [] address = \h2005 -> ScrollWrite(b, value)
          [] address = \h2006 -> AddrWrite(b, value)
          [] address = \h2007 ->
                CASE r.ppuaddr \in 0..\h1FFF ->
                        IF b.cartridge.chr_rom_size = 0
                        THEN Ok(ppu_increment_vram_ptr(
                                  [b EXCEPT !.cartridge.chr_ram =
                                                Store(@, r.ppuaddr, value)]), 0)
                        ELSE Ok(b, 0)
                  [] r.ppuaddr \in \h2000..\h2FFF ->
                        Ok(ppu_increment_vram_ptr(
                             [b EXCEPT !.ppu_ram =
                                 Store(@, translate_nametable_addr(b, r.ppuaddr), value)]), 0)
                  [] r.ppuaddr \in \h3F00..\h3FFF ->
                        Ok(ppu_increment_vram_ptr(
                             set_entry(b, \h3F00 + (r.ppuaddr % \h20), value).bus), 0)
                  [] OTHER -> Err(b)
          [] OTHER -> Err(b)

\* The PRG arm of cpu_read_byte and cpu_read_byte_no_modify
BusPrgRead(b, address) ==
    [bus |-> b, res |-> prg_read(b.cartridge, address)]

\* Bus::cpu_read_byte
cpu_read_byte(b, address) ==
    CASE address \in 0..\h1FFF -> Ok(b, Load(b.cpu_ram, address % \h0800))
      [] address \in \h2000..\h3FFF -> cpu_read_ppu_register(b, address, TRUE)
      [] address \in \h4000..\h4015 -> Ok(b, 0)
      [] address = \h4016 -> read_from_controller(b)
      [] address = \h4017 -> Ok(b, 0)
      [] address \in \h4020..\hFFFF -> BusPrgRead(b, address)
      [] OTHER -> Err(b)

\* Bus::cpu_read_byte_no_modify
cpu_read_byte_no_modify(b, address) ==
    CASE address \in 0..\h1FFF -> Ok(b, Load(b.cpu_ram, address % \h0800))
      [] address \in \h2000..\h3FFF -> cpu_read_ppu_register(b, address, FALSE)
      [] address \in \h4000..\h4017 -> Ok(b, 0)
      [] address \in \h4020..\hFFFF -> BusPrgRead(b, address)
      [] OTHER -> Err(b)

\* Bus::cpu_write_byte.  The first arm is 0..=2048 in the source and cpu_ram
\* has 2048 cells, so index 2048 is out of bounds.
cpu_write_byte(b, address, value) ==
    CASE address \in 0..2048 ->
            IF address < CPU_RAM_SIZE
            THEN Ok([b EXCEPT !.cpu_ram = Store(@, address, value)], 0)
            ELSE Panic(b)
      [] address \in \h4000..\h4013 -> Ok(b, 0)
      [] address = \h4014 ->
            Ok([b EXCEPT !.dma_page_addr = value * 256, !.pending_dma = TRUE], 0)
      [] address = \h4015 -> Ok(b, 0)
      [] address = \h4016 -> Ok(write_to_controller(b, Bit(value, 0)), 0)
      [] address = \h4017 -> Ok(b, 0)
      [] address \in \h2000..\h3FFF -> cpu_write_ppu_register(b, address, value)
      [] address \in \h4020..\hFFFF -> Ok(b, 0)
      [] OTHER -> Err(b)

\* Bus::cpu_read_exact for a buffer of two bytes: the bytes read, or the
\* first failure
cpu_read_exact2(b, address) ==
    LET second(r0, r1) ==
            IF r1.res[1] # "Ok" THEN [bus |-> r1.bus, res |-> <<r1.res[1], 0, 0>>]
            ELSE [bus |-> r1.bus, res |-> <<"Ok", r0.res[2], r1.res[2]>>]
        first(r0) ==
            IF r0.res[1] # "Ok" THEN [bus |-> r0.bus, res |-> <<r0.res[1], 0, 0>>]
            ELSE second(r0, cpu_read_byte(r0.bus, address + 1))
    IN  first(cpu_read_byte(b, address))

\* The i-th round of the loop of Bus::process_dma, on the result r of the
\* rounds before it: cpu_ram[addr] is an index into the 2048 cells of
\* cpu_ram, not a bus read.
DmaRound(r, i) ==
    IF r.res[1] # "Ok" THEN r
    ELSE IF r.bus.dma_page_addr + i >= CPU_RAM_SIZE THEN Panic(r.bus)
    ELSE cpu_write_ppu_register(r.bus, \h2004,
                                Load(r.bus.cpu_ram, r.bus.dma_page_addr + i))

\* n rounds of the loop, from the i-th on
RECURSIVE DmaRounds(_, _, _)
DmaRounds(r, i, n) ==
    IF n = 0 \/ r.res[1] # "Ok" THEN r
    ELSE DmaRounds(DmaRound(r, i), i + 1, n - 1)

\* The loop of Bus::process_dma from its i-th round on, sixteen rounds at a
\* time
RECURSIVE DmaLoop(_, _)
DmaLoop(r, i) ==
    IF i = \h100 THEN r
    ELSE LET rest(n) == IF n.res[1] = "Ok" THEN DmaLoop(n, i + 16) ELSE n
         IN  rest(DmaRounds(r, i, 16))

\* Bus::process_dma
process_dma(b) ==
    LET done(r) ==
            IF r.res[1] = "Ok" THEN Ok([r.bus EXCEPT !.pending_dma = FALSE], 0) ELSE r
    IN  done(DmaLoop(Ok(b, 0), 0))

-----------------------------------------------------------------------------
(* CPU *)

\* stack_ptr and program_counter are usize in the source.  A usize that has
\* wrapped below zero (possible only without overflow checks) is kept as the
\* negative number v - 2^64, so v + n is the wrapping sum while it is >= 0.

CpuOk(c, b, v) == [cpu |-> c, bus |-> b, res |-> <<"Ok", v>>]
CpuFail(c, b, how) == [cpu |-> c, bus |-> b, res |-> <<how, 0>>]

\* CPURegisters::new
CPURegistersNew ==
    [accumulator |-> 0, x_reg |-> 0, y_reg |-> 0, stack_ptr |-> \hFF,
     program_counter |-> 0, status_register |-> \h24]

\* CPU::reset
reset(c, b) ==
    LET vector(rd) ==
            IF rd.res[1] # "Ok" THEN CpuFail(c, rd.bus, rd.res[1])
            ELSE IF c.registers.stack_ptr < 3 /\ build.overflow_checks
            THEN CpuFail(c, rd.bus, "panic")
            ELSE CpuOk([c EXCEPT
                          !.registers.program_counter = FromLeBytes(rd.res[2], rd.res[3]),
                          !.total_cycles = @ + 7,
                          !.registers.stack_ptr = @ - 3,
                          !.registers.status_register = SetBit(@, INT_DISABLE, TRUE)],
                       rd.bus, 0)
    IN  vector(cpu_read_exact2(b, \hFFFC))

\* CPU::new
CPUNew(b) == reset([registers |-> CPURegistersNew, total_cycles |-> 0], b)

\* CPU::push_stack
RECURSIVE push_stack(_, _, _)
push_stack(c, b, data) ==
    IF data = <<>> THEN CpuOk(c, b, 0)
    ELSE LET sp == c.registers.stack_ptr
             written(wr) ==
                 IF wr.res[1] # "Ok" THEN CpuFail(c, wr.bus, wr.res[1])
                 ELSE IF sp = 0 /\ build.overflow_checks THEN CpuFail(c, wr.bus, "panic")
                 ELSE push_stack([c EXCEPT !.registers.stack_ptr = sp - 1],
                                 wr.bus, Tail(data))
         IN  written(cpu_write_byte(b, sp + \h100, Head(data)))

\* A faulty handle_irq, for comparison: the status register is pushed after
\* InterruptDisable is set
handle_irq_pushes_disabled(c, b) ==
    LET pc16 == c.registers.program_counter % 65536
        vector(p2, rd) ==
            IF rd.res[1] # "Ok" THEN CpuFail(p2.cpu, rd.bus, rd.res[1])
            ELSE CpuOk([p2.cpu EXCEPT
                          !.registers.program_counter = FromLeBytes(rd.res[2], rd.res[3]),
                          !.total_cycles = @ + 7],
                       rd.bus, 8)
        pushed_status(p2) ==
            IF p2.res[1] # "Ok" THEN p2
            ELSE vector(p2, cpu_read_exact2(p2.bus, \hFFFA))
        pushed_pc(p1) ==
            IF p1.res[1] # "Ok" THEN p1
            ELSE pushed_status(
                   push_stack([p1.cpu EXCEPT !.registers.status_register =
                                                SetBit(@, INT_DISABLE, TRUE)],
                              p1.bus,
                              <<SetBit(c.registers.status_register, INT_DISABLE, TRUE)>>))
    IN  pushed_pc(push_stack(c, b, <<pc16 \div 256, pc16 % 256>>))

\* CPU::handle_irq
handle_irq(c, b) ==
    LET pc16 == c.registers.program_counter % 65536
        sr == c.registers.status_register
        vector(p2, rd) ==
            IF rd.res[1] # "Ok" THEN CpuFail(p2.cpu, rd.bus, rd.res[1])
            ELSE CpuOk([p2.cpu EXCEPT
                          !.registers.program_counter = FromLeBytes(rd.res[2], rd.res[3]),
                          !.total_cycles = @ + 7],
                       rd.bus, 8)
        pushed_status(p2) ==
            IF p2.res[1] # "Ok" THEN p2
            ELSE vector(p2, cpu_read_exact2(p2.bus, \hFFFA))
        pushed_pc(p1) ==
            IF p1.res[1] # "Ok" THEN p1
            ELSE pushed_status(
                   push_stack([p1.cpu EXCEPT !.registers.status_register =
                                                SetBit(@, INT_DISABLE, TRUE)],
                              p1.bus, <<sr>>))
    IN  pushed_pc(push_stack(c, b, <<pc16 \div 256, pc16 % 256>>))

\* CPU::set_status_bit_if
set_status_bit_if(c, bit_pos, predicate) ==
    [c EXCEPT !.registers.status_register = SetBit(@, bit_pos, predicate)]

\* The opcode table rows of the instructions the frame loop is run on:
\* <<num_bytes, cycles>> of NOP, LDA #imm, LDA abs, STA abs, STA zp
OpcodeRow(op) ==
    CASE op = "NOP"     -> <<1, 2>>
      [] op = "LDA_IMM" -> <<2, 2>>
      [] op = "LDA_ABS" -> <<3, 4>>
      [] op = "STA_ABS" -> <<3, 4>>
      [] op = "STA_ZP"  -> <<2, 3>>

\* CPU::lda with the byte read
LdaLoad(c, byte) ==
    set_status_bit_if(set_status_bit_if([c EXCEPT !.registers.accumulator = byte],
                                        1, byte = 0), 7, Bit(byte, 7))

\* CPU::execute_opcode on a decoded instruction ins = [op, arg]: the operand
\* fetch (program_counter moves over the operand bytes), then nop, lda or sta
execute_opcode(c, b, ins) ==
    LET row == OpcodeRow(ins.op)
        c1 == [c EXCEPT !.registers.program_counter = @ + (row[1] - 1)]
        loaded(rd) ==
            IF rd.res[1] = "Ok" THEN CpuOk(LdaLoad(c1, rd.res[2]), rd.bus, row[2])
            ELSE CpuFail(c1, rd.bus, rd.res[1])
        stored(wr) ==
            IF wr.res[1] = "Ok" THEN CpuOk(c1, wr.bus, row[2])
            ELSE CpuFail(c1, wr.bus, wr.res[1])
    IN  CASE ins.op = "NOP" -> CpuOk(c1, b, row[2])
          [] ins.op = "LDA_IMM" -> CpuOk(LdaLoad(c1, ins.arg), b, row[2])
          [] ins.op = "LDA_ABS" -> loaded(cpu_read_byte(b, ins.arg))
          [] ins.op \in {"STA_ABS", "STA_ZP"} ->
                stored(cpu_write_byte(b, ins.arg, c.registers.accumulator))

\* CPU::step.  The opcode byte at program_counter is an input of the run: the
\* step is given the instruction it decodes to.
step(c, b, pending_interrupt, ins) ==
    IF pending_interrupt THEN handle_irq(c, b)
    ELSE LET c1 == [c EXCEPT !.registers.program_counter = @ + 1]
             executed(ex) ==
                 IF ex.res[1] # "Ok" THEN ex
                 ELSE CpuOk([ex.cpu EXCEPT !.total_cycles = @ + ex.res[2]],
                            ex.bus, ex.res[2])
             fetched(fetch) ==
                 IF fetch.res[1] # "Ok" THEN CpuFail(c, fetch.bus, fetch.res[1])
                 ELSE executed(execute_opcode(c1, fetch.bus, ins))
         IN  fetched(cpu_read_byte(b, c.registers.program_counter))

\* i8::from_le_bytes
AsSigned(byte) == IF byte >= 128 THEN byte - 256 ELSE byte

\* CPU::will_cross_boundary: the pages are compared in the low 16 bits
will_cross_boundary(old_pc, new_pc) ==
    (new_pc % 65536) \div 256 # (old_pc % 65536) \div 256

\* [bus.cpu_read_byte(a0)?, bus.cpu_read_byte(a1)?]: the two bytes read, or
\* the first failure
ReadPair(b, a0, a1) ==
    LET second(r0, r1) ==
            IF r1.res[1] # "Ok" THEN [bus |-> r1.bus, res |-> <<r1.res[1], 0, 0>>]
            ELSE [bus |-> r1.bus, res |-> <<"Ok", r0.res[2], r1.res[2]>>]
        first(r0) ==
            IF r0.res[1] # "Ok" THEN [bus |-> r0.bus, res |-> <<r0.res[1], 0, 0>>]
            ELSE second(r0, cpu_read_byte(r0.bus, a1))
    IN  first(cpu_read_byte(b, a0))

\* CPU::lookup_opcode, the table: <<"Ok", mnemonic, mode, num_bytes, cycles>>
\* of an opcode byte.  0x00 is todo!(), a byte without a row is Err.  The
\* operand bytes the source fetches while it builds the row are fetched by
\* fetch_more_bytes.
lookup_opcode(opcode) ==
    CASE opcode = \h00 -> <<"panic">>
      [] opcode = \h01 -> <<"Ok", "ORA", "INDIRECTX", 2, 6>>
      [] opcode = \h05 -> <<"Ok", "ORA", "ZEROPAGE", 2, 3>>
      [] opcode = \h18 -> <<"Ok", "CLC", "IMPLIED", 1, 2>>
      [] opcode = \h06 -> <<"Ok", "ASL", "ZEROPAGE", 2, 5>>
      [] opcode = \h08 -> <<"Ok", "PHP", "IMPLIED", 1, 3>>
      [] opcode = \h09 -> <<"Ok", "ORA", "IMMEDIATE", 2, 2>>
      [] opcode = \h0A -> <<"Ok", "ASL", "ACCUMULATOR", 1, 2>>
      [] opcode = \h0D -> <<"Ok", "ORA", "ABSOLUTE", 3, 4>>
      [] opcode = \h0E -> <<"Ok", "ASL", "ABSOLUTE", 3, 6>>
      [] opcode = \h10 -> <<"Ok", "BPL", "RELATIVE", 2, 2>>
      [] opcode = \h11 -> <<"Ok", "ORA", "INDIRECTY", 2, 5>>
      [] opcode = \h15 -> <<"Ok", "ORA", "ZEROPAGEX", 2, 4>>
      [] opcode = \h16 -> <<"Ok", "ASL", "ZEROPAGEX", 2, 6>>
      [] opcode = \h19 -> <<"Ok", "ORA", "ABSOLUTEY", 3, 4>>
      [] opcode = \h1D -> <<"Ok", "ORA", "ABSOLUTEX", 3, 4>>
      [] opcode = \h1E -> <<"Ok", "ASL", "ABSOLUTEX", 3, 7>>
      [] opcode = \h20 -> <<"Ok", "JSR", "ABSOLUTE", 3, 6>>
      [] opcode = \h21 -> <<"Ok", "AND", "INDIRECTX", 2, 6>>
      [] opcode = \h24 -> <<"Ok", "BIT", "ZEROPAGE", 2, 3>>
      [] opcode = \h25 -> <<"Ok", "AND", "ZEROPAGE", 2, 3>>
      [] opcode = \h26 -> <<"Ok", "ROL", "ZEROPAGE", 2, 5>>
      [] opcode = \h28 -> <<"Ok", "PLP", "IMPLIED", 1, 4>>
      [] opcode = \h2A -> <<"Ok", "ROL", "ACCUMULATOR", 1, 2>>
      [] opcode = \h29 -> <<"Ok", "AND", "IMMEDIATE", 2, 2>>
      [] opcode = \h2C -> <<"Ok", "BIT", "ABSOLUTE", 3, 4>>
      [] opcode = \h2D -> <<"Ok", "AND", "ABSOLUTE", 3, 4>>
      [] opcode = \h2E -> <<"Ok", "ROL", "ABSOLUTE", 3, 6>>
      [] opcode = \h30 -> <<"Ok", "BMI", "RELATIVE", 2, 2>>
      [] opcode = \h31 -> <<"Ok", "AND", "INDIRECTY", 2, 5>>
      [] opcode = \h35 -> <<"Ok", "AND", "ZEROPAGEX", 2, 4>>
      [] opcode = \h36 -> <<"Ok", "ROL", "ZEROPAGEX", 2, 6>>
      [] opcode = \h38 -> <<"Ok", "SEC", "IMPLIED", 1, 2>>
      [] opcode = \h39 -> <<"Ok", "AND", "ABSOLUTEY", 3, 4>>
      [] opcode = \h3D -> <<"Ok", "AND", "ABSOLUTEX", 3, 4>>
      [] opcode = \h3E -> <<"Ok", "ROL", "ABSOLUTEX", 3, 7>>
      [] opcode = \h40 -> <<"Ok", "RTI", "IMPLIED", 1, 6>>
      [] opcode = \h41 -> <<"Ok", "EOR", "INDIRECTX", 2, 6>>
      [] opcode = \h45 -> <<"Ok", "EOR", "ZEROPAGE", 2, 3>>
      [] opcode = \h46 -> <<"Ok", "LSR", "ZEROPAGE", 2, 5>>
      [] opcode = \h49 -> <<"Ok", "EOR", "IMMEDIATE", 2, 2>>
      [] opcode = \h4A -> <<"Ok", "LSR", "ACCUMULATOR", 1, 2>>
      [] opcode = \h4C -> <<"Ok", "JMP", "ABSOLUTE", 3, 3>>
      [] opcode = \h4D -> <<"Ok", "EOR", "ABSOLUTE", 3, 4>>
      [] opcode = \h4E -> <<"Ok", "LSR", "ABSOLUTE", 3, 6>>
      [] opcode = \h48 -> <<"Ok", "PHA", "IMPLIED", 1, 3>>
      [] opcode = \h50 -> <<"Ok", "BVC", "RELATIVE", 2, 2>>
      [] opcode = \h51 -> <<"Ok", "EOR", "INDIRECTY", 2, 5>>
      [] opcode = \h55 -> <<"Ok", "EOR", "ZEROPAGEX", 2, 4>>
      [] opcode = \h56 -> <<"Ok", "LSR", "ZEROPAGEX", 2, 6>>
      [] opcode = \h59 -> <<"Ok", "EOR", "ABSOLUTEY", 3, 4>>
      [] opcode = \h5D -> <<"Ok", "EOR", "ABSOLUTEX", 3, 4>>
      [] opcode = \h5E -> <<"Ok", "LSR", "ABSOLUTEX", 3, 7>>
      [] opcode = \h60 -> <<"Ok", "RTS", "IMPLIED", 1, 6>>
      [] opcode = \h61 -> <<"Ok", "ADC", "INDIRECTX", 2, 6>>
      [] opcode = \h65 -> <<"Ok", "ADC", "ZEROPAGE", 2, 3>>
      [] opcode = \h66 -> <<"Ok", "ROR", "ZEROPAGE", 2, 5>>
      [] opcode = \h68 -> <<"Ok", "PLA", "IMPLIED", 1, 4>>
      [] opcode = \h69 -> <<"Ok", "ADC", "IMMEDIATE", 2, 2>>
      [] opcode = \h6A -> <<"Ok", "ROR", "ACCUMULATOR", 1, 2>>
      [] opcode = \h6C -> <<"Ok", "JMP", "INDIRECT", 3, 5>>
      [] opcode = \h6D -> <<"Ok", "ADC", "ABSOLUTE", 3, 4>>
      [] opcode = \h6E -> <<"Ok", "ROR", "ABSOLUTE", 3, 6>>
      [] opcode = \h70 -> <<"Ok", "BVS", "RELATIVE", 2, 2>>
      [] opcode = \h71 -> <<"Ok", "ADC", "INDIRECTY", 2, 5>>
      [] opcode = \h75 -> <<"Ok", "ADC", "ZEROPAGEX", 2, 4>>
      [] opcode = \h76 -> <<"Ok", "ROR", "ZEROPAGEX", 2, 6>>
      [] opcode = \h78 -> <<"Ok", "SEI", "IMPLIED", 1, 2>>
      [] opcode = \h79 -> <<"Ok", "ADC", "ABSOLUTEY", 3, 4>>
      [] opcode = \h7D -> <<"Ok", "ADC", "ABSOLUTEX", 3, 4>>
      [] opcode = \h7E -> <<"Ok", "ROR", "ABSOLUTEX", 3, 7>>
      [] opcode = \h81 -> <<"Ok", "STA", "INDIRECTX", 2, 6>>
      [] opcode = \h84 -> <<"Ok", "STY", "ZEROPAGE", 2, 3>>
      [] opcode = \h85 -> <<"Ok", "STA", "ZEROPAGE", 2, 3>>
      [] opcode = \h86 -> <<"Ok", "STX", "ZEROPAGE", 2, 3>>
      [] opcode = \h88 -> <<"Ok", "DEY", "IMPLIED", 1, 2>>
      [] opcode = \h8A -> <<"Ok", "TXA", "IMPLIED", 1, 2>>
      [] opcode = \h8C -> <<"Ok", "STY", "ABSOLUTE", 3, 4>>
      [] opcode = \h8D -> <<"Ok", "STA", "ABSOLUTE", 3, 4>>
      [] opcode = \h8E -> <<"Ok", "STX", "ABSOLUTE", 3, 4>>
      [] opcode = \h90 -> <<"Ok", "BCC", "RELATIVE", 2, 2>>
      [] opcode = \h91 -> <<"Ok", "STA", "INDIRECTY", 2, 6>>
      [] opcode = \h94 -> <<"Ok", "STY", "ZEROPAGEX", 2, 4>>
      [] opcode = \h95 -> <<"Ok", "STA", "ZEROPAGEX", 2, 4>>
      [] opcode = \h96 -> <<"Ok", "STX", "ZEROPAGEY", 2, 4>>
      [] opcode = \h98 -> <<"Ok", "TYA", "IMPLIED", 1, 2>>
      [] opcode = \h99 -> <<"Ok", "STA", "ABSOLUTEY", 3, 5>>
      [] opcode = \h9A -> <<"Ok", "TXS", "IMPLIED", 1, 2>>
      [] opcode = \h9D -> <<"Ok", "STA", "ABSOLUTEX", 3, 5>>
      [] opcode = \hA0 -> <<"Ok", "LDY", "IMMEDIATE", 2, 2>>
      [] opcode = \hA1 -> <<"Ok", "LDA", "INDIRECTX", 2, 6>>
      [] opcode = \hA2 -> <<"Ok", "LDX", "IMMEDIATE", 2, 2>>
      [] opcode = \hA4 -> <<"Ok", "LDY", "ZEROPAGE", 2, 3>>
      [] opcode = \hA5 -> <<"Ok", "LDA", "ZEROPAGE", 2, 3>>
      [] opcode = \hA6 -> <<"Ok", "LDX", "ZEROPAGE", 2, 3>>
      [] opcode = \hA8 -> <<"Ok", "TAY", "IMPLIED", 1, 2>>
      [] opcode = \hA9 -> <<"Ok", "LDA", "IMMEDIATE", 2, 2>>
      [] opcode = \hAA -> <<"Ok", "TAX", "IMPLIED", 1, 2>>
      [] opcode = \hAC -> <<"Ok", "LDY", "ABSOLUTE", 3, 4>>
      [] opcode = \hAD -> <<"Ok", "LDA", "ABSOLUTE", 3, 4>>
      [] opcode = \hAE -> <<"Ok", "LDX", "ABSOLUTE", 3, 4>>
      [] opcode = \hB0 -> <<"Ok", "BCS", "RELATIVE", 2, 2>>
      [] opcode = \hB1 -> <<"Ok", "LDA", "INDIRECTY", 2, 5>>
      [] opcode = \hB4 -> <<"Ok", "LDY", "ZEROPAGEX", 2, 4>>
      [] opcode = \hB5 -> <<"Ok", "LDA", "ZEROPAGEX", 2, 4>>
      [] opcode = \hB6 -> <<"Ok", "LDX", "ZEROPAGEY", 2, 4>>
      [] opcode = \hB8 -> <<"Ok", "CLV", "IMPLIED", 1, 2>>
      [] opcode = \hB9 -> <<"Ok", "LDA", "ABSOLUTEY", 3, 4>>
      [] opcode = \hBA -> <<"Ok", "TSX", "IMPLIED", 1, 2>>
      [] opcode = \hBC -> <<"Ok", "LDY", "ABSOLUTEX", 3, 4>>
      [] opcode = \hBD -> <<"Ok", "LDA", "ABSOLUTEX", 3, 4>>
      [] opcode = \hBE -> <<"Ok", "LDX", "ABSOLUTEY", 3, 4>>
      [] opcode = \hC0 -> <<"Ok", "CPY", "IMMEDIATE", 2, 2>>
      [] opcode = \hC1 -> <<"Ok", "CMP", "INDIRECTX", 2, 6>>
      [] opcode = \hC4 -> <<"Ok", "CPY", "ZEROPAGE", 2, 3>>
      [] opcode = \hC5 -> <<"Ok", "CMP", "ZEROPAGE", 2, 3>>
      [] opcode = \hC6 -> <<"Ok", "DEC", "ZEROPAGE", 2, 5>>
      [] opcode = \hC8 -> <<"Ok", "INY", "IMPLIED", 1, 2>>
      [] opcode = \hC9 -> <<"Ok", "CMP", "IMMEDIATE", 2, 2>>
      [] opcode = \hCA -> <<"Ok", "DEX", "IMPLIED", 1, 2>>
      [] opcode = \hCC -> <<"Ok", "CPY", "ABSOLUTE", 3, 4>>
      [] opcode = \hCD -> <<"Ok", "CMP", "ABSOLUTE", 3, 4>>
      [] opcode = \hCE -> <<"Ok", "DEC", "ABSOLUTE", 3, 6>>
      [] opcode = \hD0 -> <<"Ok", "BNE", "RELATIVE", 2, 2>>
      [] opcode = \hD1 -> <<"Ok", "CMP", "INDIRECTY", 2, 5>>
      [] opcode = \hD5 -> <<"Ok", "CMP", "ZEROPAGEX", 2, 4>>
      [] opcode = \hD6 -> <<"Ok", "DEC", "ZEROPAGEX", 2, 6>>
      [] opcode = \hD8 -> <<"Ok", "CLD", "IMPLIED", 1, 2>>
      [] opcode = \hD9 -> <<"Ok", "CMP", "ABSOLUTEY", 3, 4>>
      [] opcode = \hDD -> <<"Ok", "CMP", "ABSOLUTEX", 3, 4>>
      [] opcode = \hDE -> <<"Ok", "DEC", "ABSOLUTEX", 3, 7>>
      [] opcode = \hE0 -> <<"Ok", "CPX", "IMMEDIATE", 2, 2>>
      [] opcode = \hE1 -> <<"Ok", "SBC", "INDIRECTX", 2, 6>>
      [] opcode = \hE4 -> <<"Ok", "CPX", "ZEROPAGE", 2, 3>>
      [] opcode = \hE5 -> <<"Ok", "SBC", "ZEROPAGE", 2, 3>>
      [] opcode = \hE6 -> <<"Ok", "INC", "ZEROPAGE", 2, 5>>
      [] opcode = \hE8 -> <<"Ok", "INX", "IMPLIED", 1, 2>>
      [] opcode = \hE9 -> <<"Ok", "SBC", "IMMEDIATE", 2, 2>>
      [] opcode = \hEA -> <<"Ok", "NOP", "IMPLIED", 1, 2>>
      [] opcode = \hEC -> <<"Ok", "CPX", "ABSOLUTE", 3, 4>>
      [] opcode = \hED -> <<"Ok", "SBC", "ABSOLUTE", 3, 4>>
      [] opcode = \hEE -> <<"Ok", "INC", "ABSOLUTE", 3, 6>>
      [] opcode = \hF0 -> <<"Ok", "BEQ", "RELATIVE", 2, 2>>
      [] opcode = \hF1 -> <<"Ok", "SBC", "INDIRECTY", 2, 5>>
      [] opcode = \hF5 -> <<"Ok", "SBC", "ZEROPAGEX", 2, 4>>
      [] opcode = \hF6 -> <<"Ok", "INC", "ZEROPAGEX", 2, 6>>
      [] opcode = \hF8 -> <<"Ok", "SED", "IMPLIED", 1, 2>>
      [] opcode = \hF9 -> <<"Ok", "SBC", "ABSOLUTEY", 3, 4>>
      [] opcode = \hFD -> <<"Ok", "SBC", "ABSOLUTEX", 3, 4>>
      [] opcode = \hFE -> <<"Ok", "INC", "ABSOLUTEX", 3, 7>>
      [] OTHER -> <<"Err">>

\* CPU::fetch_zero_more_bytes, fetch_one_more_bytes, fetch_two_more_bytes: the
\* operand bytes <<bytes[1], bytes[2]>> of a row of num_bytes bytes, read at
\* program_counter, which moves over them
fetch_more_bytes(c, b, num_bytes) ==
    LET got(rd) ==
            IF rd.res[1] # "Ok" THEN [cpu |-> c, bus |-> rd.bus, res |-> rd.res]
            ELSE [cpu |-> [c EXCEPT !.registers.program_counter = @ + (num_bytes - 1)],
                  bus |-> rd.bus, res |-> rd.res]
        one(r) == [bus |-> r.bus, res |-> <<r.res[1], r.res[2], 0>>]
    IN  CASE num_bytes = 1 -> [cpu |-> c, bus |-> b, res |-> <<"Ok", 0, 0>>]
          [] num_bytes = 2 -> got(one(cpu_read_byte(b, c.registers.program_counter)))
          [] num_bytes = 3 -> got(cpu_read_exact2(b, c.registers.program_counter))

\* CPU::fetch_absolute_base_addr
fetch_absolute_base_addr(bytes) == FromLeBytes(bytes[1], bytes[2])

\* CPU::fetch_indirect_y_base_addr: [bus, res], res = <<"Ok", addr>>
fetch_indirect_y_base_addr(b, bytes) ==
    LET word(rd) ==
            IF rd.res[1] # "Ok" THEN [bus |-> rd.bus, res |-> <<rd.res[1], 0>>]
            ELSE Ok(rd.bus, FromLeBytes(rd.res[2], rd.res[3]))
    IN  word(ReadPair(b, bytes[1], (bytes[1] + 1) % 256))

\* A faulty fetch_operand_address, for comparison: the zero-page modes do not
\* wrap inside page zero
fetch_operand_address_unwrapped(c, b, mode, bytes) ==
    LET r == c.registers
        word(rd) ==
            IF rd.res[1] # "Ok" THEN [bus |-> rd.bus, res |-> <<rd.res[1], 0>>]
            ELSE Ok(rd.bus, FromLeBytes(rd.res[2], rd.res[3]))
        base_addr == FromLeBytes(bytes[1], bytes[2])
    IN  CASE mode \in {"IMPLIED", "ACCUMULATOR"} -> Ok(b, 0)
          [] mode = "IMMEDIATE" -> Ok(b, r.program_counter - 1)
          [] mode = "ABSOLUTE" -> Ok(b, base_addr)
          [] mode = "RELATIVE" ->
                Ok(b, (IF bytes[1] >= 128 THEN bytes[1] - 256 ELSE bytes[1])
                          + r.program_counter)
          [] mode = "ZEROPAGE" -> Ok(b, bytes[1])
          [] mode = "INDIRECTX" ->
                word(cpu_read_exact2(b, bytes[1] + r.x_reg))
          [] mode = "INDIRECTY" ->
                (LET indexed(rd) ==
                        IF rd.res[1] # "Ok" THEN rd
                        ELSE Ok(rd.bus, (rd.res[2] + r.y_reg) % 65536)
                 IN  indexed(word(cpu_read_exact2(b, bytes[1]))))
          [] mode = "ABSOLUTEX" -> Ok(b, (base_addr + r.x_reg) % 65536)
          [] mode = "ABSOLUTEY" -> Ok(b, (base_addr + r.y_reg) % 65536)
          [] mode = "INDIRECT" -> word(cpu_read_exact2(b, base_addr))
          [] mode = "ZEROPAGEX" -> Ok(b, bytes[1] + r.x_reg)
          [] mode = "ZEROPAGEY" -> Ok(b, bytes[1] + r.y_reg)

\* CPU::fetch_operand_address on the operand bytes <<bytes[1], bytes[2]>>:
\* [bus, res], res = <<"Ok", addr>>.  In INDIRECT mode the remainder is taken
\* by PAGE_SZ_MASK & base_addr, which is zero for a pointer in page zero: a
\* panic in every build.
fetch_operand_address(c, b, mode, bytes) ==
    LET r == c.registers
        word(rd) ==
            IF rd.res[1] # "Ok" THEN [bus |-> rd.bus, res |-> <<rd.res[1], 0>>]
            ELSE Ok(rd.bus, FromLeBytes(rd.res[2], rd.res[3]))
        indexed(rd, index) ==
            IF rd.res[1] # "Ok" THEN rd ELSE Ok(rd.bus, (rd.res[2] + index) % 65536)
        base_addr == fetch_absolute_base_addr(bytes)
        base_addr_msb_wrap == (base_addr \div 256) * 256
    IN  CASE mode \in {"IMPLIED", "ACCUMULATOR"} -> Ok(b, 0)
          [] mode = "IMMEDIATE" -> Ok(b, r.program_counter - 1)
          [] mode = "ABSOLUTE" -> Ok(b, base_addr)
          [] mode = "RELATIVE" -> Ok(b, AsSigned(bytes[1]) + r.program_counter)
          [] mode = "ZEROPAGE" -> Ok(b, bytes[1])
          [] mode = "INDIRECTX" ->
                word(ReadPair(b, (bytes[1] + r.x_reg) % 256,
                              (((bytes[1] + r.x_reg) % 256) + 1) % 256))
          [] mode = "INDIRECTY" -> indexed(fetch_indirect_y_base_addr(b, bytes), r.y_reg)
          [] mode = "ABSOLUTEX" -> Ok(b, (base_addr + r.x_reg) % 65536)
          [] mode = "ABSOLUTEY" -> Ok(b, (base_addr + r.y_reg) % 65536)
          [] mode = "INDIRECT" ->
                IF base_addr_msb_wrap = 0 THEN Panic(b)
                ELSE word(ReadPair(b, base_addr,
                                   (((base_addr + 1) % base_addr_msb_wrap) % 256)
                                       + base_addr_msb_wrap))
          [] mode = "ZEROPAGEX" -> Ok(b, (bytes[1] + r.x_reg) % 256)
          [] mode = "ZEROPAGEY" -> Ok(b, (bytes[1] + r.y_reg) % 256)

\* A faulty adjust_cycles, for comparison: a page crossing costs nothing
adjust_cycles_flat(c, b, addr, mode, bytes, cycles) == CpuOk(c, b, cycles)

\* CPU::adjust_cycles: the cycles of the row, one more when the indexed
\* address left the page of its base.  For INDIRECTY the base is read from the
\* bus a second time.
adjust_cycles(c, b, addr, mode, bytes, cycles) ==
    LET count(base) ==
            IF will_cross_boundary(base, addr) THEN cycles + 1 ELSE cycles
        again(rd) ==
            IF rd.res[1] # "Ok" THEN CpuFail(c, rd.bus, rd.res[1])
            ELSE CpuOk(c, rd.bus, count(rd.res[2]))
    IN  CASE mode = "INDIRECTY" -> again(fetch_indirect_y_base_addr(b, bytes))
          [] mode \in {"ABSOLUTEX", "ABSOLUTEY"} ->
                CpuOk(c, b, count(fetch_absolute_base_addr(bytes)))
          [] OTHER -> CpuOk(c, b, cycles)

\* A faulty sum, for comparison: Overflow is taken from the carry out
AddWithCarryBit8(c, mem) ==
    LET old_accumulator == c.registers.accumulator
        val16bit == old_accumulator + mem
                    + (IF Bit(c.registers.status_register, 0) THEN 1 ELSE 0)
        acc == val16bit % 256
    IN  set_status_bit_if(
          set_status_bit_if(
            set_status_bit_if(
              set_status_bit_if([c EXCEPT !.registers.accumulator = acc],
                                0, Bit(val16bit, 8)),
              1, acc = 0),
            6, Bit(val16bit, 8)),
          7, Bit(acc, 7))

\* The sum of CPU::adc and CPU::sbc on the byte mem: accumulator + mem + carry
\* in 16 bits, the accumulator and the flags C, Z, V, N after it.  Bit 7 of
\* (val ^ old) & (val ^ mem) is set when bit 7 of val differs from both.
AddWithCarry(c, mem) ==
    LET old_accumulator == c.registers.accumulator
        val16bit == old_accumulator + mem
                    + (IF Bit(c.registers.status_register, 0) THEN 1 ELSE 0)
        acc == val16bit % 256
    IN  set_status_bit_if(
          set_status_bit_if(
            set_status_bit_if(
              set_status_bit_if([c EXCEPT !.registers.accumulator = acc],
                                0, Bit(val16bit, 8)),
              1, acc = 0),
            6, Bit(val16bit, 7) # Bit(old_accumulator, 7)
               /\ Bit(val16bit, 7) # Bit(mem, 7)),
          7, Bit(acc, 7))

\* CPU::adc
adc(c, b, addr, mode, bytes, cycles) ==
    LET sum(rd) ==
            IF rd.res[1] # "Ok" THEN CpuFail(c, rd.bus, rd.res[1])
            ELSE adjust_cycles(AddWithCarry(c, rd.res[2]), rd.bus, addr, mode, bytes, cycles)
    IN  sum(cpu_read_byte(b, addr))

\* CPU::sbc: adc on the complement of the byte
sbc(c, b, addr, mode, bytes, cycles) ==
    LET sum(rd) ==
            IF rd.res[1] # "Ok" THEN CpuFail(c, rd.bus, rd.res[1])
            ELSE adjust_cycles(AddWithCarry(c, 255 - rd.res[2]), rd.bus,
                               addr, mode, bytes, cycles)
    IN  sum(cpu_read_byte(b, addr))

\* CPU::lda
lda(c, b, addr, mode, bytes, cycles) ==
    LET load(rd) ==
            IF rd.res[1] # "Ok" THEN CpuFail(c, rd.bus, rd.res[1])
            ELSE adjust_cycles(LdaLoad(c, rd.res[2]), rd.bus, addr, mode, bytes, cycles)
    IN  load(cpu_read_byte(b, addr))

\* CPU::sta
sta(c, b, addr, cycles) ==
    LET store(wr) ==
            IF wr.res[1] # "Ok" THEN CpuFail(c, wr.bus, wr.res[1])
            ELSE CpuOk(c, wr.bus, cycles)
    IN  store(cpu_write_byte(b, addr, c.registers.accumulator))

\* CPU::jmp
jmp(c, b, addr, cycles) ==
    CpuOk([c EXCEPT !.registers.program_counter = addr], b, cycles)

\* CPU::branchif.  A target below zero is kept as the negative number (see
\* above): the source casts the signed sum to usize.
branchif(c, b, addr, set, cycle_count, flag) ==
    IF Bit(c.registers.status_register, flag) = set
    THEN CpuOk([c EXCEPT !.registers.program_counter = addr], b,
               IF will_cross_boundary(addr, c.registers.program_counter)
               THEN cycle_count + 2 ELSE cycle_count + 1)
    ELSE CpuOk(c, b, cycle_count)

\* The branch instructions: the flag bit each tests and the value it takes
\* the branch on (CPU::bpl, bmi, bvc, bvs, bcc, bcs, bne, beq)
BranchRow(mnemonic) ==
    CASE mnemonic = "BPL" -> <<7, FALSE>>
      [] mnemonic = "BMI" -> <<7, TRUE>>
      [] mnemonic = "BVC" -> <<6, FALSE>>
      [] mnemonic = "BVS" -> <<6, TRUE>>
      [] mnemonic = "BCC" -> <<0, FALSE>>
      [] mnemonic = "BCS" -> <<0, TRUE>>
      [] mnemonic = "BNE" -> <<1, FALSE>>
      [] mnemonic = "BEQ" -> <<1, TRUE>>

Branches == {"BPL", "BMI", "BVC", "BVS", "BCC", "BCS", "BNE", "BEQ"}

\* CPU::pop_stack of n bytes: res[2] is the sequence of the bytes popped
RECURSIVE pop_stack(_, _, _)
pop_stack(c, b, n) ==
    IF n = 0 THEN CpuOk(c, b, <<>>)
    ELSE LET c1 == [c EXCEPT !.registers.stack_ptr = @ + 1]
             rest(byte, p) ==
                 IF p.res[1] # "Ok" THEN p
                 ELSE CpuOk(p.cpu, p.bus, <<byte>> \o p.res[2])
             popped(rd) ==
                 IF rd.res[1] # "Ok" THEN CpuFail(c1, rd.bus, rd.res[1])
                 ELSE rest(rd.res[2], pop_stack(c1, rd.bus, n - 1))
         IN  popped(cpu_read_byte(b, c1.registers.stack_ptr + \h100))

\* A set_status_register that takes all eight bits from the value
set_status_register_raw(c, val) == [c EXCEPT !.registers.status_register = val]

\* CPU::set_status_register
set_status_register(c, val) ==
    [c EXCEPT !.registers.status_register =
        SetBit(SetBit(val, BFLAG, Bit(c.registers.status_register, BFLAG)), 5, TRUE)]

\* CPU::rti
rti(c, b, cycles) ==
    LET return(p) ==
            IF p.res[1] # "Ok" THEN p
            ELSE CpuOk([p.cpu EXCEPT !.registers.program_counter =
                                        FromLeBytes(p.res[2][1], p.res[2][2])],
                       p.bus, cycles)
        status(p) ==
            IF p.res[1] # "Ok" THEN p
            ELSE return(pop_stack(set_status_register(p.cpu, p.res[2][1]), p.bus, 2))
    IN  status(pop_stack(c, b, 1))

\* CPU::plp
plp(c, b, cycles) ==
    LET status(p) ==
            IF p.res[1] # "Ok" THEN p
            ELSE CpuOk(set_status_register(p.cpu, p.res[2][1]), p.bus, cycles)
    IN  status(pop_stack(c, b, 1))

\* CPU::pla
pla(c, b, cycles) ==
    LET pulled(p) ==
            IF p.res[1] # "Ok" THEN p
            ELSE CpuOk(set_status_bit_if(
                         set_status_bit_if(
                           [p.cpu EXCEPT !.registers.accumulator = p.res[2][1]],
                           1, p.res[2][1] = 0),
                         7, Bit(p.res[2][1], 7)),
                       p.bus, cycles)
    IN  pulled(pop_stack(c, b, 1))

\* CPU::php
php(c, b, cycles) ==
    LET pushed(p) == IF p.res[1] # "Ok" THEN p ELSE CpuOk(p.cpu, p.bus, cycles)
    IN  pushed(push_stack(c, b, <<SetBit(c.registers.status_register, BFLAG, TRUE)>>))

\* CPU::pha
pha(c, b, cycles) ==
    LET pushed(p) == IF p.res[1] # "Ok" THEN p ELSE CpuOk(p.cpu, p.bus, cycles)
    IN  pushed(push_stack(c, b, <<c.registers.accumulator>>))

\* CPU::jsr
jsr(c, b, addr, cycles) ==
    LET ret16 == (c.registers.program_counter - 1) % 65536
        pushed(p) ==
            IF p.res[1] # "Ok" THEN p
            ELSE CpuOk([p.cpu EXCEPT !.registers.program_counter = addr], p.bus, cycles)
    IN  pushed(push_stack(c, b, <<ret16 \div 256, ret16 % 256>>))

\* CPU::rts
rts(c, b, cycles) ==
    LET return(p) ==
            IF p.res[1] # "Ok" THEN p
            ELSE IF FromLeBytes(p.res[2][1], p.res[2][2]) = \hFFFF /\ build.overflow_checks
                 THEN CpuFail(p.cpu, p.bus, "panic")
            ELSE CpuOk([p.cpu EXCEPT !.registers.program_counter =
                                        (FromLeBytes(p.res[2][1], p.res[2][2]) + 1) % 65536],
                       p.bus, cycles)
    IN  return(pop_stack(c, b, 2))

\* CPU::tsx
tsx(c, b, cycles) ==
    LET x == c.registers.stack_ptr % 256
    IN  CpuOk(set_status_bit_if(
                set_status_bit_if([c EXCEPT !.registers.x_reg = x], 1, x = 0),
                7, Bit(x, 7)),
              b, cycles)

\* CPU::txs
txs(c, b, cycles) ==
    CpuOk([c EXCEPT !.registers.stack_ptr = c.registers.x_reg], b, cycles)

\* The accumulator loaded with byte, Zero and Negative set from it: the tail
\* of CPU::and, CPU::ora and CPU::eor before adjust_cycles
Accumulate(c, byte) ==
    set_status_bit_if(set_status_bit_if([c EXCEPT !.registers.accumulator = byte],
                                        1, byte = 0), 7, Bit(byte, 7))

\* CPU::and
and(c, b, addr, mode, bytes, cycles) ==
    LET conj(x, y) == x /\ y
        read(rd) ==
            IF rd.res[1] # "Ok" THEN CpuFail(c, rd.bus, rd.res[1])
            ELSE adjust_cycles(
                   Accumulate(c, BitwiseOp(c.registers.accumulator, rd.res[2], conj)),
                   rd.bus, addr, mode, bytes, cycles)
    IN  read(cpu_read_byte(b, addr))

\* CPU::ora
ora(c, b, addr, mode, bytes, cycles) ==
    LET disj(x, y) == x \/ y
        read(rd) ==
            IF rd.res[1] # "Ok" THEN CpuFail(c, rd.bus, rd.res[1])
            ELSE adjust_cycles(
                   Accumulate(c, BitwiseOp(c.registers.accumulator, rd.res[2], disj)),
                   rd.bus, addr, mode, bytes, cycles)
    IN  read(cpu_read_byte(b, addr))

\* CPU::eor
eor(c, b, addr, mode, bytes, cycles) ==
    LET differ(x, y) == x # y
        read(rd) ==
            IF rd.res[1] # "Ok" THEN CpuFail(c, rd.bus, rd.res[1])
            ELSE adjust_cycles(
                   Accumulate(c, BitwiseOp(c.registers.accumulator, rd.res[2], differ)),
                   rd.bus, addr, mode, bytes, cycles)
    IN  read(cpu_read_byte(b, addr))

\* CPU::compare_reg
compare_reg(c, b, addr, reg_val, mode, bytes, cycles) ==
    LET read(rd) ==
            IF rd.res[1] # "Ok" THEN CpuFail(c, rd.bus, rd.res[1])
            ELSE adjust_cycles(
                   set_status_bit_if(
                     set_status_bit_if(
                       set_status_bit_if(c, 0, reg_val >= rd.res[2]),
                       1, reg_val = rd.res[2]),
                     7, Bit((reg_val - rd.res[2]) % 256, 7)),
                   rd.bus, addr, mode, bytes, cycles)
    IN  read(cpu_read_byte(b, addr))

\* CPU::ldx
ldx(c, b, addr, mode, bytes, cycles) ==
    LET read(rd) ==
            IF rd.res[1] # "Ok" THEN CpuFail(c, rd.bus, rd.res[1])
            ELSE adjust_cycles(
                   set_status_bit_if(
                     set_status_bit_if([c EXCEPT !.registers.x_reg = rd.res[2]],
                                       1, rd.res[2] = 0),
                     7, Bit(rd.res[2], 7)),
                   rd.bus, addr, mode, bytes, cycles)
    IN  read(cpu_read_byte(b, addr))

\* CPU::ldy
ldy(c, b, addr, mode, bytes, cycles) ==
    LET read(rd) ==
            IF rd.res[1] # "Ok" THEN CpuFail(c, rd.bus, rd.res[1])
            ELSE adjust_cycles(
                   set_status_bit_if(
                     set_status_bit_if([c EXCEPT !.registers.y_reg = rd.res[2]],
                                       1, rd.res[2] = 0),
                     7, Bit(rd.res[2], 7)),
                   rd.bus, addr, mode, bytes, cycles)
    IN  read(cpu_read_byte(b, addr))

\* CPU::stx
stx(c, b, addr, cycles) ==
    LET store(wr) ==
            IF wr.res[1] # "Ok" THEN CpuFail(c, wr.bus, wr.res[1])
            ELSE CpuOk(c, wr.bus, cycles)
    IN  store(cpu_write_byte(b, addr, c.registers.x_reg))

\* CPU::inc
inc(c, b, addr, cycles) ==
    LET written(new_byte, wr) ==
            IF wr.res[1] # "Ok" THEN CpuFail(c, wr.bus, wr.res[1])
            ELSE CpuOk(set_status_bit_if(set_status_bit_if(c, 1, new_byte = 0),
                                         7, Bit(new_byte, 7)),
                       wr.bus, cycles)
        read(rd) ==
            IF rd.res[1] # "Ok" THEN CpuFail(c, rd.bus, rd.res[1])
            ELSE written((rd.res[2] + 1) % 256,
                         cpu_write_byte(rd.bus, addr, (rd.res[2] + 1) % 256))
    IN  read(cpu_read_byte(b, addr))

\* The mnemonics whose execute function is modelled
Executed ==
    Branches \cup {"ADC", "SBC", "LDA", "STA", "JMP", "NOP", "RTI", "PLP", "PLA", "PHP",
                   "PHA", "JSR", "RTS", "TSX", "TXS", "AND", "ORA", "EOR", "CMP", "LDX",
                   "LDY", "STX", "INC"}

\* (opcode.execute)(self, addr, &opcode, bus) for a row of lookup_opcode
Execute(c, b, addr, row, bytes) ==
    CASE row[2] = "ADC" -> adc(c, b, addr, row[3], bytes, row[5])
      [] row[2] = "SBC" -> sbc(c, b, addr, row[3], bytes, row[5])
      [] row[2] = "LDA" -> lda(c, b, addr, row[3], bytes, row[5])
      [] row[2] = "STA" -> sta(c, b, addr, row[5])
      [] row[2] = "JMP" -> jmp(c, b, addr, row[5])
      [] row[2] = "NOP" -> CpuOk(c, b, row[5])
      [] row[2] = "RTI" -> rti(c, b, row[5])
      [] row[2] = "PLP" -> plp(c, b, row[5])
      [] row[2] = "PLA" -> pla(c, b, row[5])
      [] row[2] = "PHP" -> php(c, b, row[5])
      [] row[2] = "PHA" -> pha(c, b, row[5])
      [] row[2] = "JSR" -> jsr(c, b, addr, row[5])
      [] row[2] = "RTS" -> rts(c, b, row[5])
      [] row[2] = "TSX" -> tsx(c, b, row[5])
      [] row[2] = "TXS" -> txs(c, b, row[5])
      [] row[2] = "AND" -> and(c, b, addr, row[3], bytes, row[5])
      [] row[2] = "ORA" -> ora(c, b, addr, row[3], bytes, row[5])
      [] row[2] = "EOR" -> eor(c, b, addr, row[3], bytes, row[5])
      [] row[2] = "CMP" ->
            compare_reg(c, b, addr, c.registers.accumulator, row[3], bytes, row[5])
      [] row[2] = "LDX" -> ldx(c, b, addr, row[3], bytes, row[5])
      [] row[2] = "LDY" -> ldy(c, b, addr, row[3], bytes, row[5])
      [] row[2] = "STX" -> stx(c, b, addr, row[5])
      [] row[2] = "INC" -> inc(c, b, addr, row[5])
      [] row[2] \in Branches ->
            branchif(c, b, addr, BranchRow(row[2])[2], row[5], BranchRow(row[2])[1])

\* CPU::execute_opcode on the opcode byte read from the bus: the row, the
\* operand bytes, the operand address, the execute function
ExecuteOpcodeVal(c, b, opcode_val) ==
    LET row == lookup_opcode(opcode_val)
        run(f, ad) ==
            IF ad.res[1] # "Ok" THEN CpuFail(f.cpu, ad.bus, ad.res[1])
            ELSE Execute(f.cpu, ad.bus, ad.res[2], row, <<f.res[2], f.res[3]>>)
        fetched(f) ==
            IF f.res[1] # "Ok" THEN CpuFail(f.cpu, f.bus, f.res[1])
            ELSE run(f, fetch_operand_address(f.cpu, f.bus, row[3], <<f.res[2], f.res[3]>>))
    IN  IF row[1] # "Ok" THEN CpuFail(c, b, row[1])
        ELSE fetched(fetch_more_bytes(c, b, row[4]))

\* CPU::step with the opcode byte read from the bus at program_counter
StepFetched(c, b, pending_interrupt) ==
    IF pending_interrupt THEN handle_irq(c, b)
    ELSE LET c1 == [c EXCEPT !.registers.program_counter = @ + 1]
             executed(ex) ==
                 IF ex.res[1] # "Ok" THEN ex
                 ELSE CpuOk([ex.cpu EXCEPT !.total_cycles = @ + ex.res[2]],
                            ex.bus, ex.res[2])
             fetched(fetch) ==
                 IF fetch.res[1] # "Ok" THEN CpuFail(c, fetch.bus, fetch.res[1])
                 ELSE executed(ExecuteOpcodeVal(c1, fetch.bus, fetch.res[2]))
         IN  fetched(cpu_read_byte(b, c.registers.program_counter))

-----------------------------------------------------------------------------
(* PPU *)

VISIBLE_DOTS_PER_SCANLINE == 256
DOTS_PER_SCANLINE == 341
NUM_SCANLINES == 262

\* bitfield::BitRangeMut::set_bit_range on a u16
SetBitRange(v, msb, lsb, x) ==
    LET w == Pow2(msb - lsb + 1)
        lo == Pow2(lsb)
    IN  (v \div (lo * w)) * (lo * w) + (x % w) * lo + (v % lo)

\* bitfield::BitRange::bit_range
BitRange(v, msb, lsb) == (v \div Pow2(lsb)) % Pow2(msb - lsb + 1)

\* PPU::new
PPUNew ==
    [nametable_addr |-> \h2000, x_scroll |-> 0, y_scroll |-> 0, scanlines |-> 0,
     dots |-> 21, generated_interrupt |-> FALSE]

\* PPU::prepare_next_frame
prepare_next_frame(p, b) ==
    LET r == b.ppu_registers
        nametable_start_idx == (r.fine_y \div 8) * 32 + (r.fine_x \div 8)
        base == \h2000 + \h400 * (r.ppuctrl % 4)
    IN  [ppu |-> [p EXCEPT !.scanlines = 0, !.y_scroll = r.fine_y, !.x_scroll = r.fine_x,
                           !.nametable_addr = (base + nametable_start_idx) % 65536],
         bus |-> [b EXCEPT !.ppu_registers.ppuctrl = SetBitRange(@, 1, 0, 0)]]

\* One round of the pixel loop of PPU::draw_scanline, as far as it moves
\* nametable_addr: s = <<nametable_addr, fine_x_wrapped>>.  Coarse x steps
\* once per eight pixels and wraps at 31 into the horizontally neighbouring
\* nametable.
PixelStep(s) ==
    IF s[2] + 1 > 7
    THEN LET coarse_x == BitRange(s[1], 4, 0)
         IN  <<IF coarse_x = 31
               THEN SetBit(SetBitRange(s[1], 4, 0, 0), 10, ~Bit(s[1], 10))
               ELSE SetBitRange(s[1], 4, 0, coarse_x + 1), 0>>
    ELSE <<s[1], s[2] + 1>>

\* n rounds of the pixel loop
RECURSIVE PixelSteps(_, _)
PixelSteps(s, n) ==
    IF n = 0 \/ s[2] > 7 THEN s ELSE PixelSteps(PixelStep(s), n - 1)

\* The pixel loop of PPU::draw_scanline from pixel x on, eight pixels at a
\* time: nametable_addr after pixel 255
RECURSIVE PixelLoop(_, _)
PixelLoop(s, x) ==
    IF x = VISIBLE_DOTS_PER_SCANLINE THEN s[1]
    ELSE LET rest(t) == IF t[2] <= 7 THEN PixelLoop(t, x + 8) ELSE t[1]
         IN  rest(PixelSteps(s, 8))

\* PPU::draw_scanline.  Which pixels sprite 0 covers is decided by the OAM,
\* CHR and nametable bytes: hit says whether one of them lay on an opaque
\* background pixel of this scanline.
draw_scanline(p, b, hit) ==
    LET coarse_y == BitRange(p.nametable_addr, 9, 5)
        step_y(nt1) ==
            IF (p.y_scroll + p.scanlines) % 8 = 7
            THEN IF coarse_y = 29
                 THEN SetBit(SetBitRange(nt1, 9, 5, 0), 11, ~Bit(nt1, 11))
                 ELSE IF coarse_y = 31 THEN SetBitRange(nt1, 9, 5, 0)
                 ELSE SetBitRange(nt1, 9, 5, coarse_y + 1)
            ELSE nt1
    IN  [ppu |-> [p EXCEPT !.nametable_addr =
                     step_y(PixelLoop(<<p.nametable_addr, p.x_scroll % 8>>, 0))],
         bus |-> IF hit
                 THEN [b EXCEPT !.ppu_registers.ppustatus = SetBit(@, SPRITE0_HIT, TRUE)]
                 ELSE b]

\* The scanline start of PPU::step (dots = 0): reload coarse x and bit 10
ScanlineStart(p, b) ==
    IF p.dots = 0
    THEN LET xs == b.ppu_registers.fine_x
         IN  [p EXCEPT !.x_scroll = xs,
                       !.nametable_addr =
                           SetBit(SetBitRange(@, 4, 0, xs \div 8), 10,
                                  Bit(b.ppu_registers.ppuctrl, 0))]
    ELSE p

\* A faulty vblank arm, for comparison: the NMI is raised at (241, 1) whether
\* PPUCTRL enables it or not
HandleVblankUnmasked(p, b) ==
    IF p.scanlines = 241 /\ p.dots = 1
    THEN [ppu |-> [p EXCEPT !.generated_interrupt = TRUE],
          bus |-> [b EXCEPT !.ppu_registers.ppustatus = SetBit(@, VBLANK, TRUE)],
          res |-> FALSE]
    ELSE IF p.scanlines = 261 /\ p.dots = 1
    THEN [ppu |-> p,
          bus |-> [b EXCEPT !.ppu_registers.ppustatus =
                               SetBit(SetBit(@, VBLANK, FALSE), SPRITE0_HIT, FALSE)],
          res |-> FALSE]
    ELSE [ppu |-> p, bus |-> b, res |-> FALSE]

\* The vblank arm of PPU::step
HandleVblank(p, b) ==
    IF p.scanlines = 241 /\ p.dots = 1
    THEN [ppu |-> [p EXCEPT !.generated_interrupt =
                               Bit(b.ppu_registers.ppuctrl, NMI_ENABLE)],
          bus |-> [b EXCEPT !.ppu_registers.ppustatus = SetBit(@, VBLANK, TRUE)],
          res |-> FALSE]
    ELSE IF p.scanlines = 261 /\ p.dots = 1
    THEN [ppu |-> p,
          bus |-> [b EXCEPT !.ppu_registers.ppustatus =
                               SetBit(SetBit(@, VBLANK, FALSE), SPRITE0_HIT, FALSE)],
          res |-> FALSE]
    ELSE [ppu |-> p, bus |-> b, res |-> FALSE]

\* A faulty PPU::step, for comparison: the dot counter restarts at 1 after a
\* scanline, so a scanline takes 340 steps
ppu_step_short(p, b, hit) ==
    LET line(p3) ==
            IF p3.scanlines >= NUM_SCANLINES
            THEN [ppu |-> [p3 EXCEPT !.scanlines = 0], bus |-> b, res |-> TRUE]
            ELSE [ppu |-> p3, bus |-> b, res |-> FALSE]
        dot(p2) ==
            IF p2.dots = DOTS_PER_SCANLINE
            THEN line([p2 EXCEPT !.scanlines = @ + 1, !.dots = 1])
            ELSE [ppu |-> p2, bus |-> b, res |-> FALSE]
    IN  dot([ScanlineStart(p, b) EXCEPT !.dots = @ + 1])

\* PPU::step: the PPU and the bus after one dot, and whether a frame finished
ppu_step(p, b, hit) ==
    LET frame(nf) == [ppu |-> nf.ppu, bus |-> nf.bus, res |-> TRUE]
        line(p3, b3) ==
            IF p3.scanlines >= NUM_SCANLINES
            THEN frame(prepare_next_frame(p3, b3))
            ELSE HandleVblank(p3, b3)
        drawn(dr) == line([dr.ppu EXCEPT !.scanlines = @ + 1, !.dots = 0], dr.bus)
        dot(p2) ==
            IF p2.dots = DOTS_PER_SCANLINE
            THEN drawn(IF p2.scanlines <= 239 THEN draw_scanline(p2, b, hit)
                       ELSE [ppu |-> p2, bus |-> b])
            ELSE HandleVblank(p2, b)
    IN  dot([ScanlineStart(p, b) EXCEPT !.dots = @ + 1])

\* PPU::generated_interrupt
generated_interrupt(p) ==
    [ppu |-> [p EXCEPT !.generated_interrupt = FALSE], res |-> p.generated_interrupt]

-----------------------------------------------------------------------------
(* NES: construction and the state the frame loop is started from *)

\* The cartridge the runs are made on: two PRG blocks, CHR ROM, the program
\* at 0x8000 and the NMI handler at 0xC000.
Cartridge ==
    [prg_rom_size |-> 2, chr_rom_size |-> 1, mirroring |-> "HORZ",
     reset_vector |-> \h8000, nmi_vector |-> \hC000, chr_ram |-> EmptyMem]

\* NES::new
NESNew(c) ==
    LET made(cp) ==
            [bus |-> cp.bus, cpu |-> cp.cpu, ppu |-> PPUNew,
             nes |-> [halt |-> TRUE, pending_interrupt |-> FALSE, dma_read_cycle |-> TRUE],
             res |-> cp.res]
    IN  made(CPUNew(BusNew(c)))

\* The loop of NES::update after its first iterations, when the program in
\* PRG ROM starts with LDA #$80, STA $2000 (nmi) or not, followed by n NOPs,
\* and the key P was pressed once.  Every iteration steps the CPU once and
\* the PPU three dots per cycle; the PPU is on scanline 240 or later, NMI is
\* only enabled by programs that have not reached scanline 241.
Booted(c, nmi, n) ==
    LET at == 21 + 3 * ((IF nmi THEN 6 ELSE 0) + 2 * n)
        vbl == at >= 241 * DOTS_PER_SCANLINE + 1 /\ at < 261 * DOTS_PER_SCANLINE + 1
        run(s0) ==
            [cpu |-> [s0.cpu EXCEPT
                        !.registers.program_counter = @ + (IF nmi THEN 5 ELSE 0) + n,
                        !.total_cycles = @ + (IF nmi THEN 6 ELSE 0) + 2 * n,
                        !.registers.accumulator = IF nmi THEN \h80 ELSE @,
                        !.registers.status_register = SetBit(@, 7, nmi)],
             bus |-> [s0.bus EXCEPT
                        !.ppu_registers.ppuctrl = IF nmi THEN \h80 ELSE @,
                        !.ppu_registers.ppustatus = SetBit(@, VBLANK, vbl)],
             ppu |-> [PPUNew EXCEPT !.scanlines = at \div DOTS_PER_SCANLINE,
                                    !.dots = at % DOTS_PER_SCANLINE,
                                    !.nametable_addr = \h2800],
             nes |-> [halt |-> FALSE, pending_interrupt |-> FALSE,
                      dma_read_cycle |-> ((IF nmi THEN 2 ELSE 0) + n) % 2 = 0]]
    IN  run(NESNew(c))

\* The programs the loop is started after: <<nmi, n>>
\*   (240, 327) with NMI enabled, DMA allowed on the next but one iteration
\*   (240, 333) with NMI enabled, DMA allowed on the next iteration
\*   (261, 300) and (261, 330), near the end of the first frame
BootPrograms ==
    {<<TRUE, 13688>>, <<TRUE, 13689>>, <<FALSE, 14880>>, <<FALSE, 14885>>}

\* The instructions the program in PRG ROM is made of
Immediates == {\h02, \h40, \h80}
LoadAddrs == {\h2002}
StoreAddrs == {\h2000, \h2002, \h4014, \h0900}
ZeroPageAddrs == {\h10}

Instructions ==
    {[op |-> "NOP", arg |-> 0]}
    \cup {[op |-> "LDA_IMM", arg |-> v] : v \in Immediates}
    \cup {[op |-> "LDA_ABS", arg |-> a] : a \in LoadAddrs}
    \cup {[op |-> "STA_ABS", arg |-> a] : a \in StoreAddrs}
    \cup {[op |-> "STA_ZP", arg |-> a] : a \in ZeroPageAddrs}

\* What the memory editor of UI::render reads or writes in one frame:
\* nothing (-1), or one address of the bus
EditorReads == {-1, \h2002}
EditorWrites == {<<-1, 0>>, <<\h2002, \h80>>}

\* Iterations of the loop of NES::update in one run
MaxIter == 4

\* last: the last call (a CPU step, a DMA, a call of the bus client), its
\* inputs, its result and the bus before it
Last0 ==
    [op |-> "none", arg |-> 0, value |-> 0, res |-> <<"Ok", 0>>,
     irq |-> FALSE, owed |-> FALSE, before |-> <<>>]

\* A PPUSCROLL write as the history keeps it: the byte written, the write
\* latch before it, and whether PPUSTATUS was read or PPUADDR written since
NoScroll ==
    [seen |-> FALSE, value |-> 0, latch |-> FALSE,
     status_read |-> FALSE, addr_written |-> FALSE]

\* hist: nmi_owed      an NMI was raised at (241, 1) and no CPU step ran its
\*                     interrupt sequence yet
\*       vbl_read      an instruction read PPUSTATUS and since then the PPU
\*                     has not reached (241, 1), nor has the memory editor
\*                     written PPUSTATUS
\*       dma_parity    total_cycles mod 2 at the last write to 0x4014
\*       overrun       PPU steps made in this update after frame-complete
\*       seg           PPU steps of the iteration in progress (3 * cycles)
\*       steps, signals, frame_len   PPU::step calls since the last
\*                     frame-complete, signals so far, calls between the last two
\*       scroll, scroll_before   the last PPUSCROLL write and the one before
\*       hit_seen      on a scanline drawn since the PPU last reached (261, 1)
\*                     an opaque pixel of sprite 0 lay on an opaque
\*                     background pixel
\*       strobe, reads the bit 0 last written to 0x4016 (the strobe of
\*                     Controller::new before any write) and the reads of
\*                     0x4016 since
\*       event         the input state the window reported to the last
\*                     NES::update
\*       dma_wait      instructions CPU::step has executed while pending_dma
\*                     was set, since it was set
Hist0 ==
    [nmi_owed |-> FALSE, vbl_read |-> FALSE,
     dma_parity |-> 0, overrun |-> 0, seg |-> 0,
     steps |-> 0, signals |-> 0, frame_len |-> 0,
     scroll |-> NoScroll, scroll_before |-> NoScroll,
     hit_seen |-> FALSE, strobe |-> TRUE, reads |-> 0, event |-> 0, dma_wait |-> 0]

Init ==
    /\ build = [overflow_checks |-> TRUE]
    /\ \/ \E s \in {NESNew(Cartridge)} :
              /\ s.res[1] = "Ok"
              /\ bus = s.bus /\ cpu = s.cpu /\ ppu = s.ppu /\ nes = s.nes
              /\ pc = "idle"
       \/ \E bp \in BootPrograms :
            \E s \in {Booted(Cartridge, bp[1], bp[2])} :
                /\ bus = s.bus /\ cpu = s.cpu /\ ppu = s.ppu /\ nes = s.nes
                /\ pc = "loop"
    /\ did_finish_frame = FALSE
    /\ ppu_left = 0
    /\ iter = 0
    /\ last = Last0
    /\ hist = Hist0

-----------------------------------------------------------------------------
(* NES::update, one action per step of the handler *)

\* A faulty head of NES::update, for comparison: the loop is entered whether
\* halted or not
UpdateRunsHalted ==
    /\ pc = "idle"
    /\ \E key_p \in BOOLEAN, input_state \in {0, 1} :
         /\ nes' = [nes EXCEPT !.halt = IF key_p THEN ~nes.halt ELSE nes.halt]
         /\ bus' = [bus EXCEPT !.controller.input_state = input_state]
         /\ pc' = "loop"
         /\ hist' = [hist EXCEPT !.overrun = 0, !.seg = 0, !.event = input_state]
    /\ did_finish_frame' = FALSE
    /\ UNCHANGED <<build, cpu, ppu, ppu_left, iter, last>>

\* The head of NES::update: the key P toggles halt, the controller state is
\* taken from the window, and the loop is entered unless halted.
Update ==
    /\ pc = "idle"
    /\ \E key_p \in BOOLEAN, input_state \in {0, 1} :
         LET h == IF key_p THEN ~nes.halt ELSE nes.halt
         IN  /\ nes' = [nes EXCEPT !.halt = h]
             /\ bus' = [bus EXCEPT !.controller.input_state = input_state]
             /\ pc' = IF h THEN "present" ELSE "loop"
             /\ hist' = [hist EXCEPT !.overrun = 0, !.seg = 0, !.event = input_state]
    /\ did_finish_frame' = FALSE
    /\ UNCHANGED <<build, cpu, ppu, ppu_left, iter, last>>

\* A loop iteration that steps the CPU: pending_interrupt is taken from the
\* PPU, then CPU::step runs the interrupt sequence or the next instruction.
\* An Err halts and leaves the loop.
LoopCpuStep ==
    /\ pc = "loop" /\ iter < MaxIter
    /\ ~(nes.dma_read_cycle /\ bus.pending_dma)
    /\ \E ins \in Instructions, gi \in {generated_interrupt(ppu)} :
       \E st \in {step(cpu, bus, gi.res, ins)} :
         LET ok == st.res[1] = "Ok"
             rd == ~gi.res /\ ok /\ ins.op = "LDA_ABS" /\ ins.arg = \h2002
             dma == ~gi.res /\ ok /\ ins.op = "STA_ABS" /\ ins.arg = \h4014
         IN  /\ ppu' = gi.ppu
             /\ cpu' = st.cpu
             /\ bus' = st.bus
             /\ nes' = [nes EXCEPT !.pending_interrupt = FALSE,
                                   !.halt = IF st.res[1] = "Err" THEN TRUE ELSE @]
             /\ pc' = CASE ok -> "ppu"
                        [] st.res[1] = "Err" -> "present"
                        [] OTHER -> "panic"
             /\ ppu_left' = IF ok THEN 3 * st.res[2] ELSE 0
             /\ last' = [op |-> IF gi.res THEN "IRQ" ELSE ins.op,
                         arg |-> IF gi.res THEN 0 ELSE ins.arg,
                         value |-> cpu.registers.accumulator,
                         res |-> st.res, irq |-> gi.res, owed |-> hist.nmi_owed,
                         before |-> bus]
             /\ hist' = [hist EXCEPT
                           !.nmi_owed = IF gi.res THEN FALSE ELSE @,
                           !.vbl_read = IF rd THEN TRUE ELSE @,
                           !.dma_parity = IF dma THEN cpu.total_cycles % 2 ELSE @,
                           !.seg = IF ok THEN 3 * st.res[2] ELSE 0,
                           !.dma_wait = IF ~bus.pending_dma THEN 0
                                        ELSE IF ok /\ ~gi.res THEN @ + 1 ELSE @]
    /\ iter' = iter + 1
    /\ UNCHANGED <<build, did_finish_frame>>

\* A loop iteration that runs the OAM DMA instead of the CPU
LoopDma ==
    /\ pc = "loop" /\ iter < MaxIter
    /\ nes.dma_read_cycle /\ bus.pending_dma
    /\ \E gi \in {generated_interrupt(ppu)}, d \in {process_dma(bus)} :
       LET ok == d.res[1] = "Ok"
       IN  /\ ppu' = gi.ppu
           /\ bus' = d.bus
           /\ nes' = [nes EXCEPT !.pending_interrupt = gi.res]
           /\ pc' = IF ok THEN "ppu" ELSE "panic"
           /\ ppu_left' = IF ok THEN 3 * 513 ELSE 0
           /\ last' = [op |-> "DMA", arg |-> bus.dma_page_addr, value |-> 0,
                       res |-> IF ok THEN <<"Ok", 513>> ELSE d.res,
                       irq |-> FALSE, owed |-> hist.nmi_owed, before |-> bus]
           /\ hist' = [hist EXCEPT !.seg = IF ok THEN 3 * 513 ELSE 0, !.dma_wait = 0]
    /\ iter' = iter + 1
    /\ UNCHANGED <<build, cpu, did_finish_frame>>

\* One round of the for loop: PPU::step, and did_finish_frame latched
PpuStep ==
    /\ pc = "ppu" /\ ppu_left > 0
    /\ \E hit \in (IF ppu.dots + 1 = DOTS_PER_SCANLINE /\ ppu.scanlines <= 239
                   THEN BOOLEAN ELSE {FALSE}) :
       \E r \in {ppu_step(ppu, bus, hit)} :
         LET vblank_dot == r.ppu.scanlines = 241 /\ r.ppu.dots = 1
         IN  /\ ppu' = r.ppu
             /\ bus' = r.bus
             /\ did_finish_frame' = (did_finish_frame \/ r.res)
             /\ hist' = [hist EXCEPT
                           !.nmi_owed = IF vblank_dot THEN r.ppu.generated_interrupt ELSE @,
                           !.vbl_read = IF vblank_dot THEN FALSE ELSE @,
                           !.overrun = IF did_finish_frame THEN @ + 1 ELSE @,
                           !.hit_seen = IF r.ppu.scanlines = 261 /\ r.ppu.dots = 1
                                        THEN FALSE ELSE @ \/ hit]
    /\ ppu_left' = ppu_left - 1
    /\ UNCHANGED <<build, cpu, nes, pc, iter, last>>

\* A faulty end of an iteration, for comparison: the for loop is left as soon
\* as a frame is finished
LoopEndAtFrame ==
    /\ pc = "ppu" /\ (ppu_left = 0 \/ did_finish_frame)
    /\ IF did_finish_frame
       THEN pc' = "present" /\ nes' = nes
       ELSE pc' = "loop" /\ nes' = [nes EXCEPT !.dma_read_cycle = ~@]
    /\ UNCHANGED <<build, bus, cpu, ppu, did_finish_frame, ppu_left, iter, last, hist>>

\* The end of an iteration: leave the loop on a finished frame, else flip
\* dma_read_cycle and go round
LoopEnd ==
    /\ pc = "ppu" /\ ppu_left = 0
    /\ IF did_finish_frame
       THEN pc' = "present" /\ nes' = nes
       ELSE pc' = "loop" /\ nes' = [nes EXCEPT !.dma_read_cycle = ~@]
    /\ UNCHANGED <<build, bus, cpu, ppu, did_finish_frame, ppu_left, iter, last, hist>>

\* A read of the memory editor: Bus::cpu_read_byte, the result discarded
EditorRead(b, a) == IF a = -1 THEN Ok(b, 0) ELSE cpu_read_byte(b, a)

\* A write of the memory editor: Bus::cpu_write_byte, the result discarded
EditorWrite(b, w) == IF w[1] = -1 THEN Ok(b, 0) ELSE cpu_write_byte(b, w[1], w[2])

\* The tail of NES::update: the frame is presented if one was finished, and
\* UI::render runs the memory editor on the bus
Present ==
    /\ pc = "present"
    /\ \E a \in EditorReads, w \in EditorWrites :
       \E r \in {EditorRead(bus, a)} :
       \E e \in {EditorWrite(r.bus, w)} :
             /\ bus' = e.bus
             /\ pc' = IF r.res[1] = "panic" \/ e.res[1] = "panic" THEN "panic" ELSE "idle"
             /\ hist' = [hist EXCEPT !.vbl_read = IF w[1] = \h2002 THEN FALSE ELSE @]
    /\ UNCHANGED <<build, cpu, ppu, nes, did_finish_frame, ppu_left, iter, last>>

Next == Update \/ LoopCpuStep \/ LoopDma \/ PpuStep \/ LoopEnd \/ Present

Spec == Init /\ [][Next]_vars

\* The loop started 17 dots before the end of the first frame, at (261, 324)
\* after 14884 NOPs, with DMA allowed on the next iteration
InitDma ==
    /\ build = [overflow_checks |-> TRUE]
    /\ \E s \in {Booted(Cartridge, FALSE, 14884)} :
         bus = s.bus /\ cpu = s.cpu /\ ppu = s.ppu /\ nes = s.nes
    /\ pc = "loop"
    /\ did_finish_frame = FALSE
    /\ ppu_left = 0
    /\ iter = 0
    /\ last = Last0
    /\ hist = Hist0

SpecDma == InitDma /\ [][Next]_vars

-----------------------------------------------------------------------------
(* The bus under a client that makes its calls in any order *)

\* The writes and the reads of the client
BusWrites ==
    {<<\h07FF, \h5A>>, <<\h0800, \h5A>>, <<\h0FFF, \h5A>>,
     <<\h2005, \h11>>, <<\h2005, \h22>>, <<\h2006, \h3F>>, <<\h2007, \h33>>,
     <<\h4014, \h07>>, <<\h4014, \h08>>, <<\h4016, \h00>>, <<\h3FFD, \h11>>}
BusReads == {\h07FF, \h0FFF, \h2002, \h2006, \h2007, \h4016, \h200A}

\* Calls of the client in one run
MaxCalls == 3

InitBus ==
    /\ build \in [overflow_checks : BOOLEAN]
    /\ \E s \in {NESNew(Cartridge)} :
         bus = s.bus /\ cpu = s.cpu /\ ppu = s.ppu /\ nes = s.nes
    /\ pc = "bus"
    /\ did_finish_frame = FALSE
    /\ ppu_left = 0
    /\ iter = 0
    /\ last = Last0
    /\ hist = Hist0

\* The bookkeeping of a call: the call and its result become last, the
\* PPUSCROLL history is kept; a panic ends the run
Called(op, arg, value, r) ==
    /\ pc = "bus" /\ iter < MaxCalls
    /\ bus' = r.bus
    /\ pc' = IF r.res[1] = "panic" THEN "panic" ELSE "bus"
    /\ iter' = iter + 1
    /\ last' = [op |-> op, arg |-> arg, value |-> value, res |-> r.res,
                irq |-> FALSE, owed |-> FALSE, before |-> bus]
    /\ hist' =
         IF op = "cpu_write_byte" /\ arg = \h2005 /\ r.res[1] = "Ok"
         THEN [hist EXCEPT
                 !.scroll_before = hist.scroll,
                 !.scroll = [seen |-> TRUE, value |-> value,
                             latch |-> bus.ppu_registers.write_latch,
                             status_read |-> FALSE, addr_written |-> FALSE]]
         ELSE [hist EXCEPT
                 !.scroll.status_read =
                     @ \/ (op = "cpu_read_byte" /\ arg = \h2002),
                 !.scroll.addr_written =
                     @ \/ (op = "cpu_write_byte" /\ arg = \h2006)]
    /\ UNCHANGED <<build, cpu, ppu, nes, did_finish_frame, ppu_left>>

CpuWrite == \E w \in BusWrites : Called("cpu_write_byte", w[1], w[2], cpu_write_byte(bus, w[1], w[2]))

CpuRead == \E a \in BusReads : Called("cpu_read_byte", a, 0, cpu_read_byte(bus, a))

CpuReadNoModify ==
    \E a \in BusReads :
        Called("cpu_read_byte_no_modify", a, 0, cpu_read_byte_no_modify(bus, a))

\* process_dma is called by NES::update when pending_dma is set
ProcessDma == bus.pending_dma /\ Called("process_dma", bus.dma_page_addr, 0, process_dma(bus))

NextBus == CpuWrite \/ CpuRead \/ CpuReadNoModify \/ ProcessDma

SpecBus == InitBus /\ [][NextBus]_vars

-----------------------------------------------------------------------------
(* The PPU stepped on its own, over whole frames *)

\* What the program left in PPUCTRL, fine_x and fine_y before the run
PpuSetups == {<<0, 0, 0>>, <<\h80, 0, 0>>, <<\h83, \h0B, \hF5>>}

\* Frame-complete signals in one run
MaxFrames == 2

InitPPU ==
    /\ build = [overflow_checks |-> TRUE]
    /\ \E su \in PpuSetups, s \in {NESNew(Cartridge)} :
             /\ bus = [s.bus EXCEPT !.ppu_registers.ppuctrl = su[1],
                                    !.ppu_registers.fine_x = su[2],
                                    !.ppu_registers.fine_y = su[3]]
             /\ cpu = s.cpu /\ ppu = s.ppu /\ nes = s.nes
    /\ pc = "run"
    /\ did_finish_frame = FALSE
    /\ ppu_left = 0
    /\ iter = 0
    /\ last = Last0
    /\ hist = Hist0

\* PPU::step, counted: hist.steps is the number of calls since the last
\* frame-complete signal, hist.frame_len the count at the last signal
PpuRun ==
    /\ pc = "run" /\ hist.signals < MaxFrames
    /\ \E hit \in (IF ppu.dots + 1 = DOTS_PER_SCANLINE /\ ppu.scanlines <= 239
                      /\ ~Bit(bus.ppu_registers.ppustatus, SPRITE0_HIT)
                   THEN BOOLEAN ELSE {FALSE}) :
       \E r \in {ppu_step(ppu, bus, hit)} :
             /\ ppu' = r.ppu
             /\ bus' = r.bus
             /\ did_finish_frame' = r.res
             /\ hist' = [hist EXCEPT
                           !.steps = IF r.res THEN 0 ELSE @ + 1,
                           !.signals = IF r.res THEN @ + 1 ELSE @,
                           !.frame_len = IF r.res THEN hist.steps + 1 ELSE @,
                           !.hit_seen = IF r.ppu.scanlines = 261 /\ r.ppu.dots = 1
                                        THEN FALSE ELSE @ \/ hit]
    /\ UNCHANGED <<build, cpu, nes, pc, ppu_left, iter, last>>

\* The poll of NES::update: PPU::generated_interrupt when an NMI is raised
PollInterrupt ==
    /\ pc = "run" /\ ppu.generated_interrupt
    /\ ppu' = generated_interrupt(ppu).ppu
    /\ nes' = [nes EXCEPT !.pending_interrupt = generated_interrupt(ppu).res]
    /\ UNCHANGED <<build, bus, cpu, pc, did_finish_frame, ppu_left, iter, last, hist>>

NextPPU == PpuRun \/ PollInterrupt

SpecPPU == InitPPU /\ [][NextPPU]_vars

-----------------------------------------------------------------------------
(* The CPU stepped on programs in RAM *)

\* A byte array of the source from bytes code laid at address at and the
\* cells data (a function from addresses to bytes)
Image(at, code, data) ==
    LET byte(x) == IF x \in DOMAIN data THEN data[x] ELSE code[x - at + 1]
        cells == {at + i - 1 : i \in 1..Len(code)} \cup DOMAIN data
    IN  [x \in {y \in cells : byte(y) # 0} |-> byte(x)]

\* The accumulator and operand bytes of the ADC and SBC programs
ArithBytes == 0..255

\* ADC #m and SBC #m, with every accumulator, operand and carry
ArithPrograms ==
    {[at |-> \h0200, code |-> <<op, m>>, data |-> <<>>, a |-> a, status |-> p] :
        op \in {\h69, \hE9}, m \in ArithBytes, a \in ArithBytes, p \in {\h24, \h25}}

\* The eight branches, with the flags N, V, Z, C all clear or all set, forward
\* and backward, within the page, across a page and below address zero
BranchPrograms ==
    {[at |-> at, code |-> <<op, off>>, data |-> <<>>, a |-> 0, status |-> p] :
        op \in {\h10, \h30, \h50, \h70, \h90, \hB0, \hD0, \hF0},
        at \in {\h0000, \h0200, \h02F0}, off \in {\h05, \h7F, \hF0},
        p \in {\h24, \hE7}}

\* JMP (P): the pointer P, 0x80 at P, 0x50 at P + 1 and 0x40 at the start of
\* the page of P when P is the last byte of its page
JmpPrograms ==
    {[at |-> \h0200, code |-> <<\h6C, ptr % 256, ptr \div 256>>,
      data |-> [x \in {ptr, ptr + 1, (ptr \div 256) * 256} |->
                  IF x = ptr THEN \h80 ELSE IF x = ptr + 1 THEN \h50 ELSE
                  IF ptr % 256 = 255 THEN \h40 ELSE \h50],
      a |-> 0, status |-> \h24] :
        ptr \in {\h0080, \h00FF, \h0180, \h01FF, \h0380, \h03FF}}

\* One instruction of every opcode byte that has no row in the table, is
\* todo!(), or has a row whose execute function is modelled
OpcodePrograms ==
    {[at |-> \h0200, code |-> <<op, \h10, \h03>>, data |-> <<>>, a |-> \h10,
      status |-> \h24] :
        op \in {o \in 0..255 : lookup_opcode(o)[1] # "Ok"
                                 \/ lookup_opcode(o)[2] \in Executed}}

CpuPrograms == ArithPrograms \cup BranchPrograms \cup JmpPrograms \cup OpcodePrograms

\* CPU steps in one run
MaxSteps == 2

InitCPU ==
    /\ build = [overflow_checks |-> TRUE]
    /\ \E prog \in CpuPrograms, s \in {NESNew(Cartridge)} :
         /\ bus = [s.bus EXCEPT !.cpu_ram = Image(prog.at, prog.code, prog.data)]
         /\ cpu = [s.cpu EXCEPT !.registers.program_counter = prog.at,
                                !.registers.accumulator = prog.a,
                                !.registers.status_register = prog.status]
         /\ ppu = s.ppu /\ nes = [s.nes EXCEPT !.halt = FALSE]
    /\ pc = "cpu"
    /\ did_finish_frame = FALSE
    /\ ppu_left = 0
    /\ iter = 0
    /\ last = Last0
    /\ hist = Hist0

\* The row of the opcode byte at program_counter
RowAtPc(c, b) == lookup_opcode(cpu_read_byte_no_modify(b, c.registers.program_counter).res[2])

\* CPU::step on the instruction at program_counter.  last.arg is the opcode
\* byte, last.value the CPU before the step, last.before the bus before it.
\* An Err halts, a panic ends the run.
CpuStep ==
    /\ pc = "cpu" /\ iter < MaxSteps
    /\ RowAtPc(cpu, bus)[1] = "Ok" => RowAtPc(cpu, bus)[2] \in Executed
    /\ \E st \in {StepFetched(cpu, bus, FALSE)} :
         /\ cpu' = st.cpu
         /\ bus' = st.bus
         /\ pc' = CASE st.res[1] = "Ok" -> "cpu"
                    [] st.res[1] = "Err" -> "halt"
                    [] OTHER -> "panic"
         /\ last' = [op |-> "step",
                     arg |-> cpu_read_byte_no_modify(bus, cpu.registers.program_counter).res[2],
                     value |-> cpu, res |-> st.res, irq |-> FALSE, owed |-> FALSE,
                     before |-> bus]
    /\ iter' = iter + 1
    /\ UNCHANGED <<build, ppu, nes, did_finish_frame, ppu_left, hist>>

NextCPU == CpuStep

SpecCPU == InitCPU /\ [][NextCPU]_vars

-----------------------------------------------------------------------------
(* The CPU stepped on stack programs, with interrupts *)

\* PHP, PLP, PHA, PLA, RTI, RTS, TXS, TSX
StackOpcodes == {\h08, \h28, \h48, \h68, \h40, \h60, \h9A, \hBA}

\* The stack pointers the programs start with, as left by LDX #v, TXS
StackPtrs == {\h00, \h01, \h02, \hFC, \hFE, \hFF}

\* The byte the ends of the stack page hold when the programs start
StackFill == {\h00, \hFF}

\* The cells of the stack page that hold the fill byte
StackCells == \h0101..\h0104 \cup \h01FD..\h01FF

\* Three stack instructions at 0x0200, or JSR $0310 and one stack instruction;
\* RTI at 0x0300, where the NMI vector points, and RTS at 0x0310
StackPrograms ==
    {[code |-> <<o1, o2, o3>>] : o1 \in StackOpcodes, o2 \in StackOpcodes, o3 \in StackOpcodes}
    \cup {[code |-> <<\h20, \h10, \h03, o>>] : o \in StackOpcodes}

\* CPU steps in one run
MaxStackSteps == 3

InitStack ==
    /\ build \in {[overflow_checks |-> TRUE], [overflow_checks |-> FALSE]}
    /\ \E prog \in StackPrograms, sp \in StackPtrs, fill \in StackFill,
          p \in {\h24, \hE7} :
       \E s \in {NESNew([Cartridge EXCEPT !.nmi_vector = \h0300])} :
         /\ bus = [s.bus EXCEPT !.cpu_ram =
                      Image(\h0200, prog.code,
                            [a \in StackCells \cup {\h0300, \h0310} |->
                                IF a = \h0300 THEN \h40 ELSE
                                IF a = \h0310 THEN \h60 ELSE fill])]
         /\ cpu = [s.cpu EXCEPT !.registers.program_counter = \h0200,
                                !.registers.accumulator = \h10,
                                !.registers.x_reg = \h80,
                                !.registers.stack_ptr = sp,
                                !.registers.status_register = p]
         /\ ppu = s.ppu /\ nes = [s.nes EXCEPT !.halt = FALSE]
    /\ pc = "stack"
    /\ did_finish_frame = FALSE
    /\ ppu_left = 0
    /\ iter = 0
    /\ last = Last0
    /\ hist = Hist0

\* CPU::step, on the instruction at program_counter or with the caller's
\* pending_interrupt flag set, which the step clears.  last.op is "step" or "interrupt", last.arg the opcode byte at
\* program_counter, last.value the CPU before the step, last.before the bus
\* before it.  An Err halts, a panic ends the run.
StackStepped(pending_interrupt) ==
    /\ pc = "stack" /\ iter < MaxStackSteps
    /\ \E st \in {StepFetched(cpu, bus, pending_interrupt)} :
         /\ cpu' = st.cpu
         /\ bus' = st.bus
         /\ pc' = CASE st.res[1] = "Ok" -> "stack"
                    [] st.res[1] = "Err" -> "halt"
                    [] OTHER -> "panic"
         /\ last' = [op |-> IF pending_interrupt THEN "interrupt" ELSE "step",
                     arg |-> cpu_read_byte_no_modify(bus, cpu.registers.program_counter).res[2],
                     value |-> cpu, res |-> st.res, irq |-> pending_interrupt,
                     owed |-> FALSE, before |-> bus]
    /\ nes' = [nes EXCEPT !.pending_interrupt = IF pending_interrupt THEN FALSE ELSE @]
    /\ iter' = iter + 1
    /\ UNCHANGED <<build, ppu, did_finish_frame, ppu_left, hist>>

StackStep ==
    /\ RowAtPc(cpu, bus)[1] = "Ok" => RowAtPc(cpu, bus)[2] \in Executed
    /\ StackStepped(FALSE)

StackInterrupt == StackStepped(TRUE)

NextStack == StackStep \/ StackInterrupt

SpecStack == InitStack /\ [][NextStack]_vars

-----------------------------------------------------------------------------
(* The CPU stepped on one instruction of every addressing mode *)

\* The read instructions, the stores and the read-modify-write instruction
\* the programs are made of
ReadMnemonics == {"LDA", "LDX", "LDY", "ADC", "SBC", "AND", "ORA", "EOR", "CMP"}
AddrMnemonics == ReadMnemonics \cup {"STA", "STX", "INC"}

\* Every opcode byte of these instructions
AddrOpcodes ==
    {o \in 0..255 : lookup_opcode(o)[1] = "Ok" /\ lookup_opcode(o)[2] \in AddrMnemonics}

\* The operand bytes and the index registers
AddrLowBytes == {\h00, \h7F, \h80, \hFF}
AddrHighBytes == {\h00, \h02, \h07, \hFF}
AddrIndexes == {\h00, \h01, \hFF}

\* The pointers page zero holds: 0x02FF or 0xFFFF at 0xFF (high byte at 0x00),
\* 0x0280 at 0x7F, 0x0701 at 0x80, 0x0302 at 0x00, and 0x05 in the first
\* byte of page one
AddrPointers ==
    {[a \in {\h00, \h01, \h7F, \h80, \h81, \hFF, \h100} |->
        CASE a = \h00 -> hi [] a = \h01 -> \h03 [] a = \h7F -> \h80 [] a = \h80 -> \h02
          [] a = \h81 -> \h07 [] a = \hFF -> \hFF [] a = \h100 -> \h05] : hi \in {\h02, \hFF}}

\* CPU steps in one run
MaxAddrSteps == 1

InitAddr ==
    /\ build = [overflow_checks |-> TRUE]
    /\ \E op \in AddrOpcodes, lo \in AddrLowBytes, hi \in AddrHighBytes,
          x \in AddrIndexes, y \in AddrIndexes, data \in AddrPointers :
       \E s \in {NESNew(Cartridge)} :
         /\ bus = [s.bus EXCEPT !.cpu_ram = Image(\h0200, <<op, lo, hi>>, data)]
         /\ cpu = [s.cpu EXCEPT !.registers.program_counter = \h0200,
                                !.registers.accumulator = \h5A,
                                !.registers.x_reg = x,
                                !.registers.y_reg = y]
         /\ ppu = s.ppu /\ nes = [s.nes EXCEPT !.halt = FALSE]
    /\ pc = "addr"
    /\ did_finish_frame = FALSE
    /\ ppu_left = 0
    /\ iter = 0
    /\ last = Last0
    /\ hist = Hist0

\* The operand address CPU::execute_opcode computes for the instruction at
\* program_counter: fetch_operand_address after the operand bytes are fetched
OperandAddress(c, b) ==
    LET row == RowAtPc(c, b)
        addressed(f) ==
            fetch_operand_address(f.cpu, f.bus, row[3], <<f.res[2], f.res[3]>>).res
    IN  addressed(fetch_more_bytes([c EXCEPT !.registers.program_counter = @ + 1],
                                   b, row[4]))

\* CPU::step on the instruction at program_counter.  last.arg is the opcode
\* byte, last.value the CPU before the step, last.before the bus before it,
\* last.addr the operand address of the instruction.
AddrStep ==
    /\ pc = "addr" /\ iter < MaxAddrSteps
    /\ RowAtPc(cpu, bus)[1] = "Ok" /\ RowAtPc(cpu, bus)[2] \in Executed
    /\ \E st \in {StepFetched(cpu, bus, FALSE)}, ad \in {OperandAddress(cpu, bus)} :
         /\ cpu' = st.cpu
         /\ bus' = st.bus
         /\ pc' = CASE st.res[1] = "Ok" -> "addr"
                    [] st.res[1] = "Err" -> "halt"
                    [] OTHER -> "panic"
         /\ last' = [op |-> "step",
                     arg |-> cpu_read_byte_no_modify(bus, cpu.registers.program_counter).res[2],
                     value |-> cpu, res |-> st.res, irq |-> FALSE, owed |-> FALSE,
                     before |-> bus, addr |-> ad]
    /\ iter' = iter + 1
    /\ UNCHANGED <<build, ppu, nes, did_finish_frame, ppu_left, hist>>

SpecAddr == InitAddr /\ [][AddrStep]_vars

-----------------------------------------------------------------------------
(* The sprites of a scanline *)

\* OAMSprite::from
OAMSpriteFrom(data, sprite_0) ==
    [y_pixel_coord |-> data[1], tile_idx |-> data[2], attribs |-> data[3],
     x_pixel_coord |-> data[4], current_x |-> data[4], sprite_0 |-> sprite_0]

\* The 4 bytes of OAM entry i
OamChunk(oam_ram, i) ==
    <<Load(oam_ram, 4 * i), Load(oam_ram, 4 * i + 1),
      Load(oam_ram, 4 * i + 2), Load(oam_ram, 4 * i + 3)>>

\* The OAM entries whose 8 rows hold next_scanline, in OAM order: what the
\* loop of PPU::sprite_evaluation pushes
SpritesOn(oam_ram, next_scanline) ==
    LET held == {i \in 0..63 : /\ Load(oam_ram, 4 * i) <= next_scanline
                               /\ next_scanline < Load(oam_ram, 4 * i) + 8}
        at(k) == CHOOSE i \in held : Cardinality({j \in held : j <= i}) = k
        pushed(i) == OAMSpriteFrom(OamChunk(oam_ram, i), i = 0)
    IN  [k \in 1..Cardinality(held) |-> pushed(at(k))]

\* Vec::reverse
Reversed(s) == [i \in 1..Len(s) |-> s[Len(s) + 1 - i]]

\* A faulty sprite_evaluation, for comparison: the order of OAM is kept
sprite_evaluation_in_order(oam_ram, next_scanline) ==
    SpritesOn(oam_ram, next_scanline)

\* PPU::sprite_evaluation: the secondary OAM it leaves
sprite_evaluation(oam_ram, next_scanline) ==
    Reversed(SpritesOn(oam_ram, next_scanline))

\* The sprite part of PPU::draw_scanline on scanline pixel_space_y: res[2] is
\* the sequence of <<sprite, row>>, one for every sprite of secondary OAM
\* that reaches compute_palette_idx, row being the y_coord passed for it.
\* A sprite reaches it at the pixel of its current_x unless that is 255, and
\* is then drawn for 8 pixels or up to pixel 254.  The row is the u8
\* difference pixel_space_y - y_pixel_coord: below zero it panics in a build
\* with overflow checks and wraps in one without.
draw_scanline_sprites(secondary_oam, pixel_space_y, overflow_checks) ==
    LET reached == {i \in 1..Len(secondary_oam) : secondary_oam[i].current_x < 255}
        row(i) == (pixel_space_y - secondary_oam[i].y_pixel_coord) % 256
        end(sp) == IF sp.x_pixel_coord + 8 > 255 THEN 255 ELSE sp.x_pixel_coord + 8
        drawn(i) == IF i \in reached
                    THEN [secondary_oam[i] EXCEPT !.current_x = end(secondary_oam[i])]
                    ELSE secondary_oam[i]
        rows == [i \in 1..Len(secondary_oam) |-> <<secondary_oam[i], row(i)>>]
    IN  IF overflow_checks
           /\ \E i \in reached : pixel_space_y < secondary_oam[i].y_pixel_coord
        THEN [secondary_oam |-> secondary_oam, res |-> <<"panic", <<>>>>]
        ELSE [secondary_oam |-> [i \in 1..Len(secondary_oam) |-> drawn(i)],
              res |-> <<"Ok", SelectSeq(rows, LAMBDA r : r[1].current_x < 255)>>]

\* y bytes of sprites
SpriteYs == {0, 100, 232, 233, 240, 255}
\* x bytes of sprites
SpriteXs == {0, 250, 255}
\* OAM entries the CPU writes
SpriteEntries == {0, 1}
\* frames drawn in one run
MaxSpriteFrames == 2
\* OAMDATA writes in one run
MaxOamWrites == 1

\* Power-on, OAM entry 0 set by the program: ppu is the PPU as far as sprites
\* go, its scanlines and its secondary_oam
InitSprite ==
    /\ build \in {[overflow_checks |-> TRUE], [overflow_checks |-> FALSE]}
    /\ \E y \in SpriteYs, x \in SpriteXs :
       \E s \in {NESNew(Cartridge)} :
         /\ bus = [s.bus EXCEPT !.oam_ram = Store(Store(EmptyMem, 0, y), 3, x)]
         /\ cpu = s.cpu /\ nes = s.nes
    /\ ppu = [scanlines |-> 0, secondary_oam |-> <<>>]
    /\ pc = "sprite"
    /\ did_finish_frame = FALSE
    /\ ppu_left = 0
    /\ iter = 0
    /\ last = Last0
    /\ hist = Hist0

\* The PPU::step that completes a scanline, as far as sprites go: a visible
\* scanline is drawn and the sprites of the next one are evaluated, and
\* after scanline 261 prepare_next_frame sets scanlines to 0.  last.arg is
\* the scanline completed, last.value what was drawn, last.before the
\* secondary OAM before the step; iter counts frames.
SpriteScanline ==
    /\ pc = "sprite" /\ iter < MaxSpriteFrames
    /\ \E d \in {IF ppu.scanlines <= 239
                 THEN draw_scanline_sprites(ppu.secondary_oam, ppu.scanlines,
                                            build.overflow_checks)
                 ELSE [secondary_oam |-> ppu.secondary_oam, res |-> <<"Ok", <<>>>>]} :
         /\ last' = [Last0 EXCEPT !.op = IF ppu.scanlines <= 239 THEN "draw" ELSE "blank",
                                  !.arg = ppu.scanlines,
                                  !.value = d.res[2],
                                  !.res = <<d.res[1], 0>>,
                                  !.before = ppu.secondary_oam]
         /\ IF d.res[1] = "panic"
            THEN /\ pc' = "panic"
                 /\ UNCHANGED <<ppu, did_finish_frame, iter>>
            ELSE /\ pc' = "sprite"
                 /\ did_finish_frame' = (ppu.scanlines + 1 >= NUM_SCANLINES)
                 /\ iter' = IF ppu.scanlines + 1 >= NUM_SCANLINES THEN iter + 1 ELSE iter
                 /\ ppu' = [scanlines |-> IF ppu.scanlines + 1 >= NUM_SCANLINES
                                          THEN 0 ELSE ppu.scanlines + 1,
                            secondary_oam |->
                                IF ppu.scanlines <= 239
                                THEN sprite_evaluation(bus.oam_ram, ppu.scanlines + 1)
                                ELSE d.secondary_oam]
    /\ UNCHANGED <<build, bus, cpu, nes, ppu_left, hist>>

\* The CPU sets the y byte of an OAM entry between two scanlines: a write
\* of OAMADDR and one of OAMDATA.  hist.steps counts them.
SpriteOamWrite ==
    /\ pc = "sprite" /\ iter < MaxSpriteFrames /\ hist.steps < MaxOamWrites
    /\ \E i \in SpriteEntries, y \in SpriteYs :
       \E w \in {cpu_write_byte(cpu_write_byte(bus, \h2003, 4 * i).bus, \h2004, y)} :
         /\ w.res[1] = "Ok"
         /\ bus' = w.bus
         /\ last' = [Last0 EXCEPT !.op = "OAMDATA", !.arg = 4 * i, !.value = y]
    /\ hist' = [hist EXCEPT !.steps = @ + 1]
    /\ UNCHANGED <<build, cpu, ppu, nes, pc, did_finish_frame, ppu_left, iter>>

NextSprite == SpriteScanline \/ SpriteOamWrite

SpecSprite == InitSprite /\ [][NextSprite]_vars

-----------------------------------------------------------------------------
(* PPU memory behind PPUADDR and PPUDATA *)

\* The bytes the client writes to PPUADDR: page bytes of the four nametables,
\* of their mirror and of palette memory, and low bytes
VramAddrBytes ==
    {\h20, \h24, \h28, \h2C, \h30, \h3F, \hFF,
     \h00, \h04, \h08, \h0C, \h10, \h14, \h18, \h1C, \h01}

\* The bytes the client writes to PPUDATA
VramValues == {\h42, \h17}

\* Calls of the client in one run
MaxVramCalls == 4

InitVram ==
    /\ build = [overflow_checks |-> TRUE]
    /\ \E m \in {"HORZ", "VERT"} :
       \E s \in {NESNew([Cartridge EXCEPT !.mirroring = m])} :
         bus = s.bus /\ cpu = s.cpu /\ ppu = s.ppu /\ nes = s.nes
    /\ pc = "vram"
    /\ did_finish_frame = FALSE
    /\ ppu_left = 0
    /\ iter = 0
    /\ last = Last0
    /\ hist = Hist0

\* The bookkeeping of a call: the call and its result become last
VramCalled(op, arg, value, r) ==
    /\ pc = "vram" /\ iter < MaxVramCalls
    /\ bus' = r.bus
    /\ pc' = IF r.res[1] = "panic" THEN "panic" ELSE "vram"
    /\ iter' = iter + 1
    /\ last' = [op |-> op, arg |-> arg, value |-> value, res |-> r.res,
                irq |-> FALSE, owed |-> FALSE, before |-> bus]
    /\ UNCHANGED <<build, cpu, ppu, nes, did_finish_frame, ppu_left, hist>>

VramAddrWrite ==
    \E v \in VramAddrBytes :
        VramCalled("cpu_write_byte", \h2006, v, cpu_write_byte(bus, \h2006, v))

VramDataWrite ==
    \E v \in VramValues :
        VramCalled("cpu_write_byte", \h2007, v, cpu_write_byte(bus, \h2007, v))

VramDataRead == VramCalled("cpu_read_byte", \h2007, 0, cpu_read_byte(bus, \h2007))

\* PPUCTRL written with VRAM_INC set or clear
VramCtrlWrite ==
    \E v \in {\h00, \h04} :
        VramCalled("cpu_write_byte", \h2000, v, cpu_write_byte(bus, \h2000, v))

NextVram == VramAddrWrite \/ VramDataWrite \/ VramDataRead \/ VramCtrlWrite

SpecVram == InitVram /\ [][NextVram]_vars

-----------------------------------------------------------------------------
(* The controller behind 0x4016 *)

\* The button states the window hands to the controller
PadStates == {\h00, \hFF, \hA5, \h5A}

\* The bytes the program writes to 0x4016
PadWrites == {\h00, \h01, \h02}

\* Calls of the program and of the window in one run
MaxPadCalls == 11

InitPad ==
    /\ build \in [overflow_checks : BOOLEAN]
    /\ \E s \in {NESNew(Cartridge)} :
         bus = s.bus /\ cpu = s.cpu /\ ppu = s.ppu /\ nes = s.nes
    /\ pc = "pad"
    /\ did_finish_frame = FALSE
    /\ ppu_left = 0
    /\ iter = 0
    /\ last = Last0
    /\ hist = Hist0

\* Controller::set_state_from_window, as NES::update calls it
PadInput ==
    /\ pc = "pad" /\ iter < MaxPadCalls
    /\ \E input_state \in PadStates :
         /\ input_state # bus.controller.input_state
         /\ bus' = [bus EXCEPT !.controller.input_state = input_state]
    /\ iter' = iter + 1
    /\ UNCHANGED <<build, cpu, ppu, nes, pc, did_finish_frame, ppu_left, last, hist>>

\* Bus::cpu_write_byte on 0x4016
PadWrite ==
    /\ pc = "pad" /\ iter < MaxPadCalls
    /\ \E v \in PadWrites :
       \E r \in {cpu_write_byte(bus, \h4016, v)} :
         /\ bus' = r.bus
         /\ pc' = IF r.res[1] = "panic" THEN "panic" ELSE "pad"
         /\ last' = [op |-> "cpu_write_byte", arg |-> \h4016, value |-> v,
                     res |-> r.res, irq |-> FALSE, owed |-> FALSE, before |-> bus]
         /\ hist' = [hist EXCEPT !.strobe = Bit(v, 0), !.reads = 0]
    /\ iter' = iter + 1
    /\ UNCHANGED <<build, cpu, ppu, nes, did_finish_frame, ppu_left>>

\* Bus::cpu_read_byte on 0x4016
PadRead ==
    /\ pc = "pad" /\ iter < MaxPadCalls
    /\ \E r \in {cpu_read_byte(bus, \h4016)} :
         /\ bus' = r.bus
         /\ pc' = IF r.res[1] = "panic" THEN "panic" ELSE "pad"
         /\ last' = [op |-> "cpu_read_byte", arg |-> \h4016, value |-> 0,
                     res |-> r.res, irq |-> FALSE, owed |-> FALSE, before |-> bus]
         /\ hist' = [hist EXCEPT !.reads = @ + 1]
    /\ iter' = iter + 1
    /\ UNCHANGED <<build, cpu, ppu, nes, did_finish_frame, ppu_left>>

NextPad == PadInput \/ PadWrite \/ PadRead

SpecPad == InitPad /\ [][NextPad]_vars

-----------------------------------------------------------------------------
(* Mapper 0 read at every kind of address, on both flavours of cartridge *)

\* The addresses read: the edges of the windows and every 0x0155-th address
PrgAddrs ==
    {\h0000, \h401F, \h4020, \h7FFF, \h8000, \hBFFF, \hC000, \hFFFA, \hFFFC,
     \hFFFF, \h10000}
    \cup {a \in 0..\hFFFF : a % \h0155 = 0}

\* Reads in one run
MaxPrgReads == 2

InitPrg ==
    /\ build = [overflow_checks |-> TRUE]
    /\ \E blocks \in {1, 2} :
       \E s \in {NESNew([Cartridge EXCEPT !.prg_rom_size = blocks])} :
         bus = s.bus /\ cpu = s.cpu /\ ppu = s.ppu /\ nes = s.nes
    /\ pc = "prg"
    /\ did_finish_frame = FALSE
    /\ ppu_left = 0
    /\ iter = 0
    /\ last = Last0
    /\ hist = Hist0

\* Mapper000::prg_read on one address: the index it computes is last.value
PrgRead ==
    /\ pc = "prg" /\ iter < MaxPrgReads
    /\ \E a \in PrgAddrs :
       \E r \in {prg_read(bus.cartridge, a)} :
         /\ last' = [op |-> "prg_read", arg |-> a, value |-> PrgIndex(bus.cartridge, a),
                     res |-> r, irq |-> FALSE, owed |-> FALSE, before |-> bus]
         /\ pc' = IF r[1] = "panic" THEN "panic" ELSE "prg"
    /\ iter' = iter + 1
    /\ UNCHANGED <<build, bus, cpu, ppu, nes, did_finish_frame, ppu_left, hist>>

NextPrg == PrgRead

SpecPrg == InitPrg /\ [][NextPrg]_vars

-----------------------------------------------------------------------------
(* Properties *)

\* C1: in the frame loop, the first CPU::step made after the PPU raised the
\* NMI at (241, 1) with NMI_ENABLE set runs the interrupt sequence (program
\* counter from 0xFFFA, InterruptDisable set) and not an instruction, also
\* when a DMA iteration comes between the dot and that step.
C1_NmiNeverDropped ==
    (last.op \notin {"none", "DMA"} /\ last.owed /\ pc = "ppu") =>
        /\ last.irq
        /\ cpu.registers.program_counter = bus.cartridge.nmi_vector
        /\ Bit(cpu.registers.status_register, INT_DISABLE)

\* C2: a write of a byte to any address of 0x0000..0x1FFF succeeds, and a
\* read at each of the four addresses congruent to it modulo 0x0800 then
\* returns the byte.
C2_RamMirrorRoundTrip ==
    (last.op = "cpu_write_byte" /\ last.arg \in 0..\h1FFF) =>
        /\ last.res[1] = "Ok"
        /\ \A k \in 0..3 :
             cpu_read_byte(bus, (last.arg % \h0800) + k * \h0800).res
                = <<"Ok", last.value>>

\* C3: after construction the program counter is the little-endian word at
\* 0xFFFC, the stack pointer is 0xFD, the status register is 0x24 and the
\* cycle counter is 7.
C3_ResetState ==
    (pc = "idle" /\ iter = 0) =>
        /\ cpu.registers.program_counter =
              FromLeBytes(prg_read(bus.cartridge, \hFFFC)[2],
                          prg_read(bus.cartridge, \hFFFD)[2])
        /\ cpu.registers.stack_ptr = \hFD
        /\ cpu.registers.status_register = \h24
        /\ cpu.total_cycles = 7

\* C4: a CPU read of PPUSTATUS returns the register as it was and leaves
\* VBLANK and the write latch clear, and VBLANK stays clear until the PPU
\* reaches (241, 1), whatever the CPU does on the bus in between.
C4_VblankStaysClear ==
    /\ (last.op = "LDA_ABS" /\ last.arg = \h2002 /\ pc = "ppu" /\ ppu_left = hist.seg) =>
          /\ cpu.registers.accumulator = last.before.ppu_registers.ppustatus
          /\ ~bus.ppu_registers.write_latch
    /\ hist.vbl_read => ~Bit(bus.ppu_registers.ppustatus, VBLANK)

\* C5, as stated: after two PPUSCROLL writes v1 then v2 with no PPUSTATUS
\* read between them, fine_x = v1 and fine_y = v2, from any reachable state
\* of the bus.
C5_ScrollPairAnyState ==
    (/\ last.op = "cpu_write_byte" /\ last.arg = \h2005 /\ last.res[1] = "Ok"
     /\ hist.scroll_before.seen /\ ~hist.scroll_before.status_read) =>
        /\ bus.ppu_registers.fine_x = hist.scroll_before.value
        /\ bus.ppu_registers.fine_y = last.value

\* C5, amended: after two PPUSCROLL writes v1 then v2, the first made with
\* the write latch clear, with no PPUSTATUS read and no PPUADDR write between
\* them, fine_x = v1 and fine_y = v2.
C5_ScrollPairLatchClear ==
    (/\ last.op = "cpu_write_byte" /\ last.arg = \h2005 /\ last.res[1] = "Ok"
     /\ hist.scroll_before.seen /\ ~hist.scroll_before.status_read
     /\ ~hist.scroll_before.latch /\ ~hist.scroll_before.addr_written) =>
        /\ bus.ppu_registers.fine_x = hist.scroll_before.value
        /\ bus.ppu_registers.fine_y = last.value

\* C5, the case: a second PPUSCROLL write of another byte, the first made
\* with the latch clear, no PPUSTATUS read or PPUADDR write between them
C5_ScrollPairWritten ==
    /\ last.op = "cpu_write_byte" /\ last.arg = \h2005 /\ last.res[1] = "Ok"
    /\ hist.scroll_before.seen /\ ~hist.scroll_before.status_read
    /\ ~hist.scroll_before.latch /\ ~hist.scroll_before.addr_written
    /\ hist.scroll_before.value # last.value
    /\ bus.ppu_registers.fine_y = last.value

\* C6: cpu_read_byte_no_modify returns a value and leaves the whole bus as
\* it was.
C6_NoModifyReadIsPure ==
    (last.op = "cpu_read_byte_no_modify") =>
        (last.res[1] # "panic" /\ bus = last.before)

\* C7: a write of H to 0x4014 sets pending_dma and the page H * 0x100;
\* process_dma then copies the 256 bytes the bus holds at H * 0x100 + i to
\* OAM[(p + i) mod 256], p the OAMADDR before it, and clears pending_dma.
C7_DmaCopiesPage ==
    /\ (last.op = "cpu_write_byte" /\ last.arg = \h4014) =>
          (bus.pending_dma /\ bus.dma_page_addr = last.value * \h100)
    /\ (last.op = "process_dma") =>
          /\ last.res[1] = "Ok"
          /\ ~bus.pending_dma
          /\ \A i \in 0..255 :
               Load(bus.oam_ram, (last.before.oam_addr + i) % 256)
                 = cpu_read_byte_no_modify(last.before,
                                           last.before.dma_page_addr + i).res[2]

\* C8: the iteration that runs the DMA takes 513 cycles if the DMA was
\* started on an even CPU cycle and 514 if on an odd one, and steps the PPU
\* three times as often.
C8_DmaStallParity ==
    (last.op = "DMA" /\ last.res[1] = "Ok") =>
        /\ last.res[2] = (IF hist.dma_parity = 0 THEN 513 ELSE 514)
        /\ hist.seg = 3 * last.res[2]

\* C9: between two consecutive frame-complete signals of PPU::step exactly
\* 341 * 262 = 89342 calls are made, whatever the registers hold; the dot
\* counter stays below 341 and the scanline counter below 262.
C9_FrameLength ==
    /\ hist.signals >= 2 => hist.frame_len = 341 * 262
    /\ ppu.dots \in 0..340 /\ ppu.scanlines \in 0..261

\* C9, the case: a second frame-complete signal has just been returned
C9_SecondFrameSignalled ==
    hist.signals >= 2 /\ did_finish_frame /\ hist.steps = 0 /\ pc = "run"

\* C10: within one update the PPU is not stepped after the step that
\* signalled frame-complete until the frame has been presented.
C10_NoStepPastFrameEnd ==
    hist.overrun = 0

\* C11: JMP (P) sets the program counter to the byte at P (low) and the byte
\* at (P & 0xFF00) | ((P + 1) & 0x00FF) (high), for a pointer P in any page,
\* page zero included.
C11_JmpIndirectPageWrap ==
    (last.op = "step" /\ last.arg = \h6C) =>
        LET at == last.value.registers.program_counter
            byte(x) == cpu_read_byte_no_modify(last.before, x).res[2]
            ptr == FromLeBytes(byte(at + 1), byte(at + 2))
        IN  /\ last.res[1] = "Ok"
            /\ cpu.registers.program_counter =
                  FromLeBytes(byte(ptr), byte((ptr \div 256) * 256 + ((ptr + 1) % 256)))

\* C12: a byte v written through PPUDATA at a PPU address a of
\* 0x2000..0x2FFF is read back at a XOR 0x0400 with HORZ mirroring and at
\* a XOR 0x0800 with VERT mirroring, and the cell at the other of the two
\* addresses is a different cell: the write leaves it as it was.
C12_NametableMirroring ==
    LET a == last.before.ppu_registers.ppuaddr
        x400 == IF Bit(a, 10) THEN a - \h0400 ELSE a + \h0400
        x800 == IF Bit(a, 11) THEN a - \h0800 ELSE a + \h0800
        horz == bus.cartridge.mirroring = "HORZ"
    IN  (/\ last.op = "cpu_write_byte" /\ last.arg = \h2007 /\ last.res[1] = "Ok"
         /\ a \in \h2000..\h2FFF) =>
            /\ ppu_read_nametable(bus, a) = <<"Ok", last.value>>
            /\ ppu_read_nametable(bus, IF horz THEN x400 ELSE x800) = <<"Ok", last.value>>
            /\ ppu_read_nametable(bus, IF horz THEN x800 ELSE x400)
                 = ppu_read_nametable(last.before, IF horz THEN x800 ELSE x400)

\* C12, the case: a byte was written through PPUDATA into a nametable whose
\* other cell holds another byte
C12_NametableWritten ==
    LET a == last.before.ppu_registers.ppuaddr
        x400 == IF Bit(a, 10) THEN a - \h0400 ELSE a + \h0400
        x800 == IF Bit(a, 11) THEN a - \h0800 ELSE a + \h0800
        horz == bus.cartridge.mirroring = "HORZ"
    IN  /\ last.op = "cpu_write_byte" /\ last.arg = \h2007 /\ last.res[1] = "Ok"
        /\ a \in \h2000..\h2FFF /\ pc = "vram"
        /\ ppu_read_nametable(bus, IF horz THEN x400 ELSE x800) = <<"Ok", last.value>>
        /\ ppu_read_nametable(bus, IF horz THEN x800 ELSE x400)[2] # last.value

\* The palette address a write through PPUDATA lands at, or -1
PaletteWritten ==
    IF /\ last.op = "cpu_write_byte" /\ last.arg = \h2007 /\ last.res[1] = "Ok"
       /\ last.before.ppu_registers.ppuaddr \in \h3F00..\h3FFF
    THEN \h3F00 + (last.before.ppu_registers.ppuaddr % \h20)
    ELSE -1

\* C13: for each i of 0..3, a write of v to 0x3F00 + 4i or to 0x3F10 + 4i is
\* read back at 0x3F00 + 4i, and a write to any other palette address leaves
\* what is read at 0x3F00 + 4i as it was.
C13_PaletteAliasReadsBack ==
    \A i \in 0..3 :
        PaletteWritten # -1 =>
            IF PaletteWritten \in {\h3F00 + 4 * i, \h3F10 + 4 * i}
            THEN get_entry(bus, \h3F00 + 4 * i).res = <<"Ok", last.value>>
            ELSE get_entry(bus, \h3F00 + 4 * i).res
                    = get_entry(last.before, \h3F00 + 4 * i).res

\* C13, as the code has it: a write of v to 0x3F00 + 4i or to 0x3F10 + 4i
\* lands in the one cell 4i, a write to any other palette address leaves that
\* cell as it was, and a read of 0x3F00 + 4i returns cell 0, the universal
\* background colour, which is v only for i = 0; the cells 16 + 4i are never
\* written.
C13_PaletteAliasSameCell ==
    \A i \in 0..3 :
        PaletteWritten # -1 =>
            /\ IF PaletteWritten \in {\h3F00 + 4 * i, \h3F10 + 4 * i}
               THEN Load(bus.palette_memory, 4 * i) = last.value
               ELSE Load(bus.palette_memory, 4 * i)
                        = Load(last.before.palette_memory, 4 * i)
            /\ get_entry(bus, \h3F00 + 4 * i).res
                    = <<"Ok", Load(bus.palette_memory, 0)>>
            /\ Load(bus.palette_memory, 16 + 4 * i) = 0

\* C13, the case: a byte was written at 0x3F14 while the universal background
\* colour is another byte
C13_UpperAliasWritten ==
    /\ PaletteWritten = \h3F14 /\ pc = "vram"
    /\ Load(bus.palette_memory, 4) = last.value
    /\ Load(bus.palette_memory, 0) # last.value

\* C14: after ADC #M on accumulator A and carry C the accumulator is
\* (A + M + C) mod 256, Carry is the carry out of bit 7 and Overflow is set
\* iff A + M + C on signed bytes lies outside -128..127; after SBC #M the
\* accumulator is (A - M - (1 - C)) mod 256, Carry is set iff there was no
\* borrow and Overflow is set iff A - M - (1 - C) on signed bytes lies outside
\* -128..127.
C14_AdcSbcFlags ==
    (last.op = "step" /\ last.arg \in {\h69, \hE9}) =>
        LET A == last.value.registers.accumulator
            M == cpu_read_byte_no_modify(last.before,
                     last.value.registers.program_counter + 1).res[2]
            C == IF Bit(last.value.registers.status_register, 0) THEN 1 ELSE 0
            unsigned == IF last.arg = \h69 THEN A + M + C ELSE A - M - (1 - C)
            signed == IF last.arg = \h69
                      THEN AsSigned(A) + AsSigned(M) + C
                      ELSE AsSigned(A) - AsSigned(M) - (1 - C)
        IN  /\ last.res[1] = "Ok"
            /\ cpu.registers.accumulator = unsigned % 256
            /\ Bit(cpu.registers.status_register, 0)
                 = IF last.arg = \h69 THEN unsigned > 255 ELSE unsigned >= 0
            /\ Bit(cpu.registers.status_register, 6) = (signed \notin -128..127)

\* C14, the case: an SBC whose result overflowed with a borrow
C14_SbcOverflowed ==
    /\ last.op = "step" /\ last.arg = \hE9 /\ last.res[1] = "Ok"
    /\ Bit(cpu.registers.status_register, 6)
    /\ ~Bit(cpu.registers.status_register, 0)

\* C15: a branch that is not taken returns 2 cycles and leaves the program
\* counter at the address after the operand; a branch that is taken sets the
\* program counter to that address plus the signed offset, a 16-bit address,
\* and returns 3 cycles, 4 when the target lies in another 256-byte page than
\* the address after the operand.
C15_BranchCyclesAndTarget ==
    (last.op = "step" /\ last.arg \in {\h10, \h30, \h50, \h70, \h90, \hB0, \hD0, \hF0}) =>
        LET after == last.value.registers.program_counter + 2
            off == cpu_read_byte_no_modify(last.before,
                       last.value.registers.program_counter + 1).res[2]
            P == last.value.registers.status_register
            taken == CASE last.arg = \h10 -> ~Bit(P, 7)
                       [] last.arg = \h30 -> Bit(P, 7)
                       [] last.arg = \h50 -> ~Bit(P, 6)
                       [] last.arg = \h70 -> Bit(P, 6)
                       [] last.arg = \h90 -> ~Bit(P, 0)
                       [] last.arg = \hB0 -> Bit(P, 0)
                       [] last.arg = \hD0 -> ~Bit(P, 1)
                       [] last.arg = \hF0 -> Bit(P, 1)
            target == (after + AsSigned(off)) % 65536
        IN  /\ last.res[1] = "Ok"
            /\ IF taken
               THEN /\ cpu.registers.program_counter = target
                    /\ last.res[2] = 3 + (IF target \div 256 # after \div 256 THEN 1 ELSE 0)
               ELSE /\ cpu.registers.program_counter = after
                    /\ last.res[2] = 2

\* The 151 official opcode bytes of the 6502
OfficialOpcodes ==
    {\h00, \h01, \h05, \h06, \h08, \h09, \h0A, \h0D, \h0E, \h10, \h11, \h15,
     \h16, \h18, \h19, \h1D, \h1E, \h20, \h21, \h24, \h25, \h26, \h28, \h29,
     \h2A, \h2C, \h2D, \h2E, \h30, \h31, \h35, \h36, \h38, \h39, \h3D, \h3E,
     \h40, \h41, \h45, \h46, \h48, \h49, \h4A, \h4C, \h4D, \h4E, \h50, \h51,
     \h55, \h56, \h58, \h59, \h5D, \h5E, \h60, \h61, \h65, \h66, \h68, \h69,
     \h6A, \h6C, \h6D, \h6E, \h70, \h71, \h75, \h76, \h78, \h79, \h7D, \h7E,
     \h81, \h84, \h85, \h86, \h88, \h8A, \h8C, \h8D, \h8E, \h90, \h91, \h94,
     \h95, \h96, \h98, \h99, \h9A, \h9D, \hA0, \hA1, \hA2, \hA4, \hA5, \hA6,
     \hA8, \hA9, \hAA, \hAC, \hAD, \hAE, \hB0, \hB1, \hB4, \hB5, \hB6, \hB8,
     \hB9, \hBA, \hBC, \hBD, \hBE, \hC0, \hC1, \hC4, \hC5, \hC6, \hC8, \hC9,
     \hCA, \hCC, \hCD, \hCE, \hD0, \hD1, \hD5, \hD6, \hD8, \hD9, \hDD, \hDE,
     \hE0, \hE1, \hE4, \hE5, \hE6, \hE8, \hE9, \hEA, \hEC, \hED, \hEE, \hF0,
     \hF1, \hF5, \hF6, \hF8, \hF9, \hFD, \hFE}

\* C19: CPU::step returns for every opcode byte, a cycle count or an error
\* and never an abort: an official opcode is executed and any other byte is
\* an error.
C19_StepNeverAborts ==
    last.op = "step" =>
        /\ last.res[1] # "panic"
        /\ (last.arg \in OfficialOpcodes) = (last.res[1] = "Ok")

\* C16: at every point of a frame SPRITE0_HIT is set iff, on a scanline drawn
\* since the PPU last reached the pre-render dot (261, 1), an opaque pixel of
\* sprite 0 lay on an opaque background pixel.
C16_Sprite0HitIffCoincided ==
    Bit(bus.ppu_registers.ppustatus, SPRITE0_HIT) = hist.hit_seen

\* C17: SPRITE0_HIT does not go from clear to set while the PPU is on the
\* scanlines 241..260, and it is clear after the PPU step that reaches
\* (261, 1).
C17_NoHitRaisedInVblank ==
    [][/\ (/\ ppu.scanlines \in 241..260 /\ ppu'.scanlines \in 241..260
           /\ ~Bit(bus.ppu_registers.ppustatus, SPRITE0_HIT))
          => ~Bit(bus'.ppu_registers.ppustatus, SPRITE0_HIT)
       /\ (ppu' # ppu /\ ppu'.scanlines = 261 /\ ppu'.dots = 1)
          => ~Bit(bus'.ppu_registers.ppustatus, SPRITE0_HIT)]_vars

\* C18: while the bit 0 last written to 0x4016 is 1 a read of 0x4016 returns
\* bit 0 (A) of the current input state; after a write with bit 0 = 0 the
\* k-th read returns bit k - 1 of it for k = 1..8 (A, B, Select, Start, Up,
\* Down, Left, Right), and the ninth and every later read returns 1.
C18_ControllerProtocol ==
    (last.op = "cpu_read_byte" /\ last.arg = \h4016) =>
        LET input_state == last.before.controller.input_state
        IN  last.res =
              <<"Ok", IF hist.strobe
                      THEN (IF Bit(input_state, 0) THEN 1 ELSE 0)
                      ELSE IF hist.reads <= 8
                      THEN (IF Bit(input_state, hist.reads - 1) THEN 1 ELSE 0)
                      ELSE 1>>

\* C20: a CPU step that returns an error halts the orchestrator in the same
\* iteration, with no PPU step after it; while halted no step changes the
\* CPU or the PPU and no DMA is processed; and every update, halted or not,
\* hands the input state of the window to the controller.
C20_HaltStopsStepping ==
    [][/\ (last' # last /\ last'.res[1] = "Err")
            => (nes'.halt /\ pc' = "present" /\ ppu_left' = 0)
       /\ nes.halt
            => /\ cpu' = cpu /\ ppu' = ppu /\ iter' = iter
               /\ bus'.oam_ram = bus.oam_ram
               /\ bus.pending_dma => bus'.pending_dma
       /\ (nes.halt /\ nes'.halt) => pc' \in {"idle", "present", "panic"}
       /\ (pc = "idle" /\ pc' # "idle")
            => bus'.controller.input_state = hist'.event]_vars

\* C20, the case: a CPU step failed, and a later update ran while halted and
\* sampled another input state
C20_HaltedUpdateSampled ==
    /\ nes.halt /\ last.res[1] = "Err" /\ pc = "present"
    /\ hist.event = 1 /\ bus.controller.input_state = 1
    /\ hist.seg = 0 /\ iter > 0 /\ last.before.controller.input_state = 0

\* C21: no read or write of the CPU bus aborts; a read or write in the RAM
\* window 0x0000..0x1FFF or of a PPU register 0x2000..0x2006 returns a value
\* or Ok, and so does every address with a target.
C21_BusNeverAborts ==
    (last.op \in {"cpu_read_byte", "cpu_write_byte"}) =>
        /\ last.res[1] # "panic"
        /\ last.arg \in 0..\h2006 => last.res[1] = "Ok"

\* C22: Mapper 0 with one PRG block reads PRG[a mod 0x4000] at every a of
\* 0xC000..0xFFFF, the same byte as at a - 0x4000; with two blocks it reads
\* PRG[a - 0x8000] at every a of 0x8000..0xFFFF; the index is inside the PRG
\* array; an address outside 0x4020..0xFFFF is an error.
C22_PrgReadWindow ==
    last.op = "prg_read" =>
        LET a == last.arg
            c == bus.cartridge
        IN  /\ last.res[1] # "panic"
            /\ last.value < c.prg_rom_size * PRG_ROM_BLOCK_SZ
            /\ a \notin \h4020..\hFFFF => last.res[1] = "Err"
            /\ (c.prg_rom_size = 1 /\ a \in \hC000..\hFFFF) =>
                  /\ last.value = a % \h4000
                  /\ last.res = <<"Ok", PrgRom(c, a % \h4000)>>
                  /\ last.res = prg_read(c, a - \h4000)
                  /\ last.value = PrgIndex(c, a - \h4000)
            /\ (c.prg_rom_size = 2 /\ a \in \h8000..\hFFFF) =>
                  /\ last.value = a - \h8000
                  /\ last.res = <<"Ok", PrgRom(c, a - \h8000)>>

\* C22, the case: the reset vector's low byte was read at 0xFFFC from a
\* cartridge of one block
C22_MirroredVectorRead ==
    /\ last.op = "prg_read" /\ last.arg = \hFFFC /\ bus.cartridge.prg_rom_size = 1
    /\ last.value = \h3FFC /\ last.res = <<"Ok", 0>>

\* C23: the PPU step that reaches (241, 1) sets VBLANK and raises the NMI iff
\* PPUCTRL.NMI_ENABLE is set then; the PPU step that reaches (261, 1) clears
\* VBLANK; a PPU step that reaches any other dot leaves VBLANK and the raised
\* NMI as they were.
C23_VblankTiming ==
    [][(ppu'.dots # ppu.dots \/ ppu'.scanlines # ppu.scanlines) =>
         IF ppu'.scanlines = 241 /\ ppu'.dots = 1
         THEN /\ Bit(bus'.ppu_registers.ppustatus, VBLANK)
              /\ ppu'.generated_interrupt = Bit(bus.ppu_registers.ppuctrl, NMI_ENABLE)
         ELSE IF ppu'.scanlines = 261 /\ ppu'.dots = 1
         THEN ~Bit(bus'.ppu_registers.ppustatus, VBLANK)
         ELSE /\ Bit(bus'.ppu_registers.ppustatus, VBLANK)
                    = Bit(bus.ppu_registers.ppustatus, VBLANK)
              /\ ppu'.generated_interrupt = ppu.generated_interrupt]_vars

\* C23, the case: the PPU reached (241, 1) of the second frame with the NMI
\* enabled
C23_VblankRaised ==
    /\ ppu.scanlines = 241 /\ ppu.dots = 1 /\ hist.signals = 1
    /\ Bit(bus.ppu_registers.ppustatus, VBLANK) /\ ppu.generated_interrupt

\* C24: a read or write of the CPU bus at an address of 0x2008..0x3FFF has
\* the result and the effect of the same operation at 0x2000 + (a mod 8).
C24_PpuRegistersMirrored ==
    (last.op \in {"cpu_read_byte", "cpu_write_byte"} /\ last.arg \in \h2008..\h3FFF) =>
        [bus |-> bus, res |-> last.res]
            = IF last.op = "cpu_read_byte"
              THEN cpu_read_byte(last.before, \h2000 + (last.arg % 8))
              ELSE cpu_write_byte(last.before, \h2000 + (last.arg % 8), last.value)

\* C25: after any sequence of instructions and interrupts, bit 5 of the status
\* register is 1 and bit 4 has its reset value 0; PLP and RTI take bits 4 and 5
\* from the register as it was and the other six from the byte popped; PHP
\* pushes the register with bit 4 set and leaves the register as it was.
C25_StatusBits45 ==
    /\ Bit(cpu.registers.status_register, 5)
    /\ ~Bit(cpu.registers.status_register, BFLAG)
    /\ (last.op = "step" /\ last.res[1] = "Ok" /\ last.arg \in {\h28, \h40}) =>
          LET popped == cpu_read_byte_no_modify(
                            last.before, last.value.registers.stack_ptr + 1 + \h100).res[2]
          IN  cpu.registers.status_register = (popped - ((popped \div 16) % 4) * 16) + 32
    /\ (last.op = "step" /\ last.res[1] = "Ok" /\ last.arg = \h08) =>
          /\ cpu.registers.status_register = last.value.registers.status_register
          /\ Load(bus.cpu_ram, last.value.registers.stack_ptr + \h100)
                = last.value.registers.status_register + 16

\* C25: PLP or RTI has popped a byte with bit 4 set and bit 5 clear
C25_PoppedBit4Set ==
    /\ last.op = "step" /\ last.res[1] = "Ok" /\ last.arg \in {\h28, \h40}
    /\ cpu_read_byte_no_modify(
           last.before, last.value.registers.stack_ptr + 1 + \h100).res[2] = \h10

\* C29: the stack pointer is an 8-bit register that wraps.  It stays in
\* 0..0xFF after every push, pop, TXS and interrupt; PHA writes the accumulator
\* at 0x0100 + SP and leaves SP at (SP - 1) mod 256; PLA leaves SP at
\* (SP + 1) mod 256 and loads the byte at 0x0100 + that SP; neither aborts.
C29_StackPointerWraps ==
    LET sp == last.value.registers.stack_ptr
    IN  /\ cpu.registers.stack_ptr \in 0..\hFF
        /\ (last.op = "step" /\ last.arg = \h48) =>
              /\ last.res[1] = "Ok"
              /\ Load(bus.cpu_ram, \h0100 + sp) = last.value.registers.accumulator
              /\ cpu.registers.stack_ptr = (sp - 1) % 256
        /\ (last.op = "step" /\ last.arg = \h68) =>
              /\ last.res[1] = "Ok"
              /\ cpu.registers.stack_ptr = (sp + 1) % 256
              /\ cpu.registers.accumulator
                    = Load(last.before.cpu_ram, \h0100 + ((sp + 1) % 256))

\* C30: a step with pending_interrupt set clears the flag, fetches no opcode,
\* pushes the high byte of PC, the low byte of PC and the status register as
\* it was before the interrupt, sets InterruptDisable, loads PC from the
\* little-endian vector at 0xFFFA-0xFFFB, adds 7 to total_cycles and returns 8.
C30_InterruptSequence ==
    last.op = "interrupt" =>
        LET c0 == last.value
            sp == c0.registers.stack_ptr
            pc16 == c0.registers.program_counter % 65536
            vec == cpu_read_exact2(last.before, \hFFFA).res
        IN  /\ last.res = <<"Ok", 8>>
            /\ ~nes.pending_interrupt
            /\ bus.cpu_ram =
                  Store(Store(Store(last.before.cpu_ram,
                                    \h0100 + sp, pc16 \div 256),
                              \h0100 + ((sp - 1) % 256), pc16 % 256),
                        \h0100 + ((sp - 2) % 256), c0.registers.status_register)
            /\ cpu.registers =
                  [c0.registers EXCEPT
                     !.stack_ptr = (sp - 3) % 256,
                     !.status_register = SetBit(@, INT_DISABLE, TRUE),
                     !.program_counter = FromLeBytes(vec[2], vec[3])]
            /\ cpu.total_cycles = c0.total_cycles + 7

\* C26: with the write latch at 0, a write of v1 to 0x2006 sets the upper byte
\* of ppuaddr and the latch; the next write, of v2 to 0x2006, sets the lower
\* byte, clears the latch and leaves ppuaddr = (v1 * 256 + v2) mod 0x4000.
C26_AddrDoubleWrite ==
    [][(last'.op = "cpu_write_byte" /\ last'.arg = \h2006 /\ iter' = iter + 1) =>
          IF ~bus.ppu_registers.write_latch
          THEN /\ bus'.ppu_registers.write_latch
               /\ bus'.ppu_registers.ppuaddr \div 256 = last'.value
               /\ bus'.ppu_registers.ppuaddr % 256 = bus.ppu_registers.ppuaddr % 256
          ELSE (last.op = "cpu_write_byte" /\ last.arg = \h2006) =>
                  /\ ~bus'.ppu_registers.write_latch
                  /\ bus'.ppu_registers.ppuaddr
                        = (last.value * 256 + last'.value) % \h4000]_vars

\* C26: 0xFF and then 0xFF were written to PPUADDR, the latch clear before
C26_AddrWrittenTwice ==
    /\ last.op = "cpu_write_byte" /\ last.arg = \h2006 /\ last.value = \hFF
    /\ last.before.ppu_registers.write_latch
    /\ last.before.ppu_registers.ppuaddr \div 256 = \hFF
    /\ ~bus.ppu_registers.write_latch

\* C27: a read of 0x2007 with ppuaddr = A below 0x3F00 returns the previous
\* content of the read buffer and refills the buffer with the byte at PPU
\* address A; with A in 0x3F00..0x3FFF it returns the palette entry; every
\* such read advances ppuaddr by 32 if PPUCTRL.VRAM_INC is set, else by 1.
C27_DataReadBuffered ==
    (last.op = "cpu_read_byte" /\ last.arg = \h2007
        /\ last.before.ppu_registers.ppuaddr \in 0..\h3FFF) =>
        LET r == last.before.ppu_registers
            A == r.ppuaddr
        IN  /\ last.res[1] = "Ok"
            /\ A < \h3F00 => last.res[2] = r.ppudata
            /\ A \in 0..\h1FFF =>
                  bus.ppu_registers.ppudata = ChrByte(last.before.cartridge, A)
            /\ A \in \h2000..\h2FFF =>
                  bus.ppu_registers.ppudata =
                      Load(last.before.ppu_ram, translate_nametable_addr(last.before, A))
            /\ A \in \h3F00..\h3FFF =>
                  last.res[2] = get_entry(last.before, \h3F00 + (A % \h20)).res[2]
            /\ bus.ppu_registers.ppuaddr = A + (IF Bit(r.ppuctrl, VRAM_INC) THEN 32 ELSE 1)

\* C28: every successful write of 0x2007 advances ppuaddr by 32 if
\* PPUCTRL.VRAM_INC is set, else by 1, whatever the target; a write whose
\* target is CHR ROM changes no memory.
C28_DataWriteAdvances ==
    (last.op = "cpu_write_byte" /\ last.arg = \h2007 /\ last.res[1] = "Ok") =>
        LET r == last.before.ppu_registers
        IN  /\ bus.ppu_registers.ppuaddr
                  = r.ppuaddr + (IF Bit(r.ppuctrl, VRAM_INC) THEN 32 ELSE 1)
            /\ (r.ppuaddr \in 0..\h1FFF /\ last.before.cartridge.chr_rom_size # 0) =>
                  /\ bus.cartridge = last.before.cartridge
                  /\ bus.ppu_ram = last.before.ppu_ram
                  /\ bus.palette_memory = last.before.palette_memory

C37_ProgramCounter16Bit ==
    /\ cpu.registers.program_counter \in 0..\hFFFF
    /\ (last.op = "step" /\ last.arg = \h60) => last.res[1] # "panic"

\* C38: after every completed pair of PPUADDR writes and any number of
\* PPUDATA reads and writes that follow, ppuaddr is in 0x0000..0x3FFF, and a
\* PPUDATA access made after the pointer was advanced does not fail for
\* being past 0x3FFF.
C38_VramAddressInRange ==
    /\ ~bus.ppu_registers.write_latch => bus.ppu_registers.ppuaddr \in 0..\h3FFF
    /\ (last.arg = \h2007 /\ ~last.before.ppu_registers.write_latch
            /\ last.before.ppu_registers.ppuaddr > \h3FFF) => last.res[1] = "Ok"

\* C35: a PPU step, a frame boundary included, never changes a register the
\* CPU writes: a read of 0x2000 returns after the step what it returned
\* before, and of PPUSTATUS only the bits VBLANK and SPRITE0_HIT change.
C35_PpuKeepsControlRegisters ==
    [][/\ cpu_read_byte(bus', \h2000).res = cpu_read_byte(bus, \h2000).res
       /\ bus'.ppu_registers.ppumask = bus.ppu_registers.ppumask
       /\ bus'.ppu_registers.ppustatus % 64 = bus.ppu_registers.ppustatus % 64]_vars

\* C32: in every iteration of the loop the PPU is stepped exactly 3 * c
\* times, c being the cycle count the CPU step of the iteration returned or
\* 513 for a DMA, and only after that CPU step or DMA: the CPU step or DMA
\* steps no PPU and owes 3 * c steps, every PPU step pays one of them and
\* leaves the CPU alone, and the iteration ends when none is owed.
C32_PpuSteppedThreeTimesCycles ==
    [][/\ (pc = "loop" /\ pc' = "ppu") =>
            /\ last'.res[1] = "Ok"
            /\ last'.op = "DMA" => last'.res[2] = 513
            /\ ppu_left' = 3 * last'.res[2]
            /\ ppu'.dots = ppu.dots /\ ppu'.scanlines = ppu.scanlines
       /\ (ppu'.dots # ppu.dots \/ ppu'.scanlines # ppu.scanlines) =>
            /\ pc = "ppu" /\ pc' = "ppu"
            /\ ppu_left' = ppu_left - 1
            /\ cpu' = cpu
       /\ (pc = "ppu" /\ pc' # "ppu") => ppu_left = 0]_vars

\* C32: an iteration whose PPU steps ran past the end of a frame is over
C32_IterationRanPastFrame ==
    pc = "ppu" /\ ppu_left = 0 /\ did_finish_frame /\ hist.overrun > 0

\* C40: once a write to 0x4014 has set pending_dma, at most one further
\* instruction is executed before process_dma runs, whatever dma_read_cycle
\* is and also across a frame boundary; pending_dma stays set until
\* process_dma runs, and a second write to 0x4014 only replaces the page.
C40_DmaAfterAtMostOneInstruction ==
    [][/\ hist'.dma_wait <= 1
       /\ (bus.pending_dma /\ ~bus'.pending_dma) => last'.op = "DMA" /\ iter' = iter + 1
       /\ (bus.pending_dma /\ iter' = iter + 1 /\ last'.op = "STA_ABS"
               /\ last'.arg = \h4014 /\ last'.res[1] = "Ok") =>
             /\ bus'.pending_dma
             /\ bus'.dma_page_addr = last'.value * \h100
             /\ bus'.oam_ram = bus.oam_ram]_vars

\* The byte the bus before the last step held in RAM at address a
ByteBefore(a) == cpu_read_byte_no_modify(last.before, a).res[2]

\* The un-indexed base address of the last instruction stepped: the operand
\* word in the absolute modes, the pointer read from page zero at the operand
\* byte and the byte after it, within page zero, in Indirect,Y
BaseBefore ==
    LET at == last.value.registers.program_counter
        mode == lookup_opcode(last.arg)[3]
        operand == ByteBefore(at + 1)
    IN  IF mode = "INDIRECTY"
        THEN ByteBefore(operand) + 256 * ByteBefore((operand + 1) % 256)
        ELSE operand + 256 * ByteBefore(at + 2)

\* The index register the mode of the last instruction stepped adds
IndexBefore ==
    IF lookup_opcode(last.arg)[3] \in {"ABSOLUTEX", "ZEROPAGEX", "INDIRECTX"}
    THEN last.value.registers.x_reg
    ELSE last.value.registers.y_reg

\* C33: a read instruction in Absolute,X, Absolute,Y or Indirect,Y mode
\* returns its base cycle count plus one iff base address + index, wrapped to
\* 16 bits, lies in another page than the base address; every other mode, and
\* every store and read-modify-write instruction, returns the base count.
C33_PageCrossCycles ==
    (last.op = "step" /\ last.res[1] = "Ok") =>
        LET row == lookup_opcode(last.arg)
            effective == (BaseBefore + IndexBefore) % 65536
            crossed == /\ row[2] \in ReadMnemonics
                       /\ row[3] \in {"ABSOLUTEX", "ABSOLUTEY", "INDIRECTY"}
                       /\ effective \div 256 # BaseBefore \div 256
        IN  last.res[2] = row[5] + (IF crossed THEN 1 ELSE 0)

\* C33: LDA ($FF),Y with the pointer 0xFFFF and Y = 1 has wrapped to 0x0000
\* and returned 6 cycles
C33_IndirectYWrapped ==
    /\ last.op = "step" /\ last.arg = \hB1 /\ last.res = <<"Ok", 6>>
    /\ BaseBefore = \hFFFF /\ last.value.registers.y_reg = 1

\* C34: the zero-page indexed and indirect modes wrap inside page zero: Zero
\* Page,X and Zero Page,Y address (operand + index) mod 0x100; Indirect,X
\* reads its pointer at (operand + X) mod 0x100 and the byte after it within
\* page zero; Indirect,Y reads its pointer at operand and the byte after it
\* within page zero and adds Y with 16-bit wrap.  STA and STX store there.
C34_ZeroPageWraps ==
    (last.op = "step" /\ last.res[1] = "Ok") =>
        LET row == lookup_opcode(last.arg)
            operand == ByteBefore(last.value.registers.program_counter + 1)
            zp == (operand + IndexBefore) % 256
            expected ==
                CASE row[3] \in {"ZEROPAGEX", "ZEROPAGEY"} -> zp
                  [] row[3] = "INDIRECTX" ->
                        ByteBefore(zp) + 256 * ByteBefore((zp + 1) % 256)
                  [] row[3] = "INDIRECTY" -> (BaseBefore + IndexBefore) % 65536
        IN  row[3] \in {"ZEROPAGEX", "ZEROPAGEY", "INDIRECTX", "INDIRECTY"} =>
              /\ last.addr = <<"Ok", expected>>
              /\ (row[2] = "STA" /\ expected < \h2000) =>
                    bus.cpu_ram = Store(last.before.cpu_ram, expected % \h0800,
                                        last.value.registers.accumulator)
              /\ (row[2] = "STX" /\ expected < \h2000) =>
                    bus.cpu_ram = Store(last.before.cpu_ram, expected % \h0800,
                                        last.value.registers.x_reg)

\* C34: LDA ($FF,X) with X = 0 has read its pointer at 0xFF and 0x00
C34_PointerWrappedInPageZero ==
    /\ last.op = "step" /\ last.arg = \hA1 /\ last.res[1] = "Ok"
    /\ ByteBefore(last.value.registers.program_counter + 1) = \hFF
    /\ last.value.registers.x_reg = 0
    /\ last.addr = <<"Ok", \h02FF>>

\* C31: after the sprite evaluation that follows the drawing of a visible
\* scanline, secondary OAM holds at most 8 sprites, the 8 rows of each of
\* them hold the next scanline, and they stand in reverse OAM order, so that
\* OAM entry 0 is last when it was selected.
C31_SecondaryOamAtMostEight ==
    (last.op = "draw" /\ last.res[1] = "Ok") =>
        LET next_scanline == last.arg + 1
            y0 == Load(bus.oam_ram, 0)
        IN  /\ Len(ppu.secondary_oam) <= 8
            /\ \A k \in 1..Len(ppu.secondary_oam) :
                 /\ ppu.secondary_oam[k].y_pixel_coord <= next_scanline
                 /\ next_scanline < ppu.secondary_oam[k].y_pixel_coord + 8
            /\ ppu.secondary_oam = Reversed(SpritesOn(bus.oam_ram, next_scanline))
            /\ (y0 <= next_scanline /\ next_scanline < y0 + 8) =>
                 ppu.secondary_oam[Len(ppu.secondary_oam)].sprite_0

\* C36: the drawing of a visible scanline Y, scanline 0 of a later frame
\* included, ends without a panic, and every sprite that reached the pattern
\* lookup has y <= Y < y + 8 and was passed a row in 0..7.
C36_DrawnSpritesOnScanline ==
    last.op = "draw" =>
        /\ last.res[1] = "Ok"
        /\ \A k \in 1..Len(last.value) :
             /\ last.value[k][1].y_pixel_coord <= last.arg
             /\ last.arg < last.value[k][1].y_pixel_coord + 8
             /\ last.value[k][2] \in 0..7

====
